---- MODULE Spec2Model ----
(***************************************************************************)
(* Session tracking engine of the git activity monitor                     *)
(* (activity_monitor/enhanced_tracker.py): the per-repository dictionaries *)
(* of EnhancedActivityTracker, the watcher callback                        *)
(* EnhancedChangeHandler.on_modified and the monitor loop's tick           *)
(* (_check_idle_sessions, then _check_commits / _handle_new_commit).       *)
(*                                                                         *)
(* Spec     : every handler runs to completion (one action per handler).   *)
(* ConcSpec : the watcher thread and the monitor thread interleave at the  *)
(*            granularity of single dictionary reads and writes.           *)
(***************************************************************************)
EXTENDS Integers, Sequences, FiniteSets, TLC

\* ------------------------------------------------------------------ bounds

\* Number of HEAD changes the environment performs.
MaxCommits == 1
\* Number of accepted change events the watcher delivers.
MaxEvents == 2
\* The same, when the watcher thread is interleaved with the monitor thread.
MaxBurst == 3

\* ---------------------------------------------------------------- constants

\* config.get("idle_threshold", 300)
IDLE_THRESHOLD == 300

\* Python's None in a session tuple (timestamps are >= 0).
None == -1
\* `git rev-parse HEAD` fails (CalledProcessError): no commit, not a repository.
NoHead == 0

\* The instants at which time.time() is read: the epoch itself, two instants
\* of one burst of work, and instants exactly IDLE_THRESHOLD and more than
\* IDLE_THRESHOLD after them.
Times == {0, 5, 10, 310, 400}

\* The files-changed counts that get_git_stats returns at a flush: fewer and
\* more files than the watcher has seen change.
GitFiles == {0, 3}

Repos == {"r1", "r2"}
Paths == {"a.py", "b.py"}
Hashes == {1, 2}

\* ------------------------------------------------------------------- state

VARIABLES
    watched,           \* the repositories under MONITOR_PATH in which files change
    now,               \* the value time.time() returns
    head,              \* what `git rev-parse HEAD` yields per repository
    active_sessions,   \* dict repo_path -> (start, last)
    accumulated_time,  \* dict repo_path -> seconds
    last_commits,      \* dict repo_path -> commit hash
    file_changes,      \* dict repo_path -> set of paths
    records,           \* the sessions handed to db.save_session, per repository
    mpc,               \* where the monitor thread is in _monitor_loop
    m,                 \* the monitor thread's local variables
    wpc,               \* where the watcher thread is in on_modified
    w,                 \* the watcher thread's local variables
    closed,            \* history: length of the spans closed since the last record
    pending,           \* history: paths accepted and not yet counted in a record
    burst,             \* history: first and last change since the last sweep
    commits,           \* history: number of HEAD changes so far, per repository
    events,            \* history: number of accepted change events so far
    lastOp,            \* history: how far an undisturbed run of ticks has come
    ep,                \* history: the operations overlapping since both threads rested
    sc,                \* a call of calculate_productivity_score: arguments and result
    table,             \* the rows of the table _show_live_status prints
    reported,          \* the failures reported by error_print / verbose_print
    running,           \* self.running
    loop,              \* history: the ticks begun and not ended, the calls of the current one
    pf                 \* a call of extract_task_name or of the diff-stat parser

tracker == <<active_sessions, accumulated_time, last_commits, file_changes, records>>
threads == <<mpc, m, wpc, w>>
vars == <<watched, now, head, active_sessions, accumulated_time, last_commits, file_changes,
          records, mpc, m, wpc, w, closed, pending, burst, commits, events, lastOp, ep,
          sc, table, reported, running, loop, pf>>

\* ----------------------------------------------------------- dict helpers

\* dict.get(k, default)
Get(d, k, default) == IF k \in DOMAIN d THEN d[k] ELSE default

\* d[k] = v
Put(d, k, v) == [x \in (DOMAIN d) \cup {k} |-> IF x = k THEN v ELSE d[x]]

\* The empty dict.
EmptyDict == [x \in {} |-> 0]

\* Python truthiness of a timestamp-or-None: None and 0 are both falsy.
Truthy(x) == x # None /\ x # 0

Max(a, b) == IF a >= b THEN a ELSE b

\* self.active_sessions.get(repo_path, (None, None))
SessionOf(as, r) == Get(as, r, <<None, None>>)

\* The tracker's dictionaries and the sink, as one value.
Tracker == [as |-> active_sessions, acc |-> accumulated_time,
            lc |-> last_commits, fc |-> file_changes, rec |-> records]

\* ------------------------------------------ calculate_productivity_score

\* The scorer divides: its values are fractions <<numerator, denominator>>
\* with a positive denominator.
Frac(n, d) == <<n, d>>
RLeq(a, b) == a[1] * b[2] <= b[1] * a[2]
REq(a, b) == a[1] * b[2] = b[1] * a[2]
RMin(a, b) == IF RLeq(a, b) THEN a ELSE b
RAdd(a, b) == <<a[1] * b[2] + b[1] * a[2], a[2] * b[2]>>
RMul(a, b) == <<a[1] * b[1], a[2] * b[2]>>

\* base_score = min(duration / 3600, 1.0) * 40
TimeScore(duration) == RMul(RMin(Frac(duration, 3600), Frac(1, 1)), Frac(40, 1))

\* file_score = min(files_changed * 5, 30)
FileScore(files_changed) == RMin(Frac(files_changed * 5, 1), Frac(30, 1))

\* Mutant of LinesScore: the volume term is not capped.
LinesScore_uncapped(lines_changed) == Frac(lines_changed, 10)

\* lines_score = min(lines_changed / 10, 30)
LinesScore(lines_changed) == RMin(Frac(lines_changed, 10), Frac(30, 1))

\* Mutant of calculate_productivity_score: no early return for duration 0.
calculate_productivity_score_noreturn(duration, files_changed, lines_changed) ==
    RAdd(RAdd(TimeScore(duration), FileScore(files_changed)), LinesScore(lines_changed))

calculate_productivity_score(duration, files_changed, lines_changed) ==
    IF duration = 0 THEN Frac(0, 1)
    ELSE RAdd(RAdd(TimeScore(duration), FileScore(files_changed)),
              LinesScore(lines_changed))

\* The arguments the scorer is called with: seconds, files, lines.
Durations == {0, 1, 120, 1800, 3599, 3600, 3601, 7200}
FileCounts == 0 .. 7
LineCounts == {0, 5, 40, 299, 300, 301, 1000}

\* ------------------------------------------------- on_modified (watcher)

\* file_changes[repo_path] = set() if missing, then .add(event.src_path)
AddPath(S, r, p) == [S EXCEPT !.fc = Put(S.fc, r, Get(S.fc, r, {}) \cup {p})]

\* Mutant of Touch: the start is never set, only the last activity.
Touch_lastonly(S, r, start, n) == [S EXCEPT !.as = Put(S.as, r, <<start, n>>)]

\* Mutant of Touch: every event restarts the session.
Touch_restart(S, r, start, n) == [S EXCEPT !.as = Put(S.as, r, <<n, n>>)]

\* if start is None: (now, now)  else: (start, now)
Touch(S, r, start, n) ==
    [S EXCEPT !.as = Put(S.as, r, IF start = None THEN <<n, n>> ELSE <<start, n>>)]

\* EnhancedChangeHandler.on_modified for an accepted event, as one step.
on_modified(S, r, p, n) == Touch(AddPath(S, r, p), r, SessionOf(S.as, r)[1], n)

\* ---------------------------------------------------- _check_idle_sessions

\* if start and (now - last > IDLE_THRESHOLD)
IsIdle(start, last, n) == Truthy(start) /\ n - last > IDLE_THRESHOLD

\* Mutant of FoldAcc: the span is taken to end at the sweep time.
FoldAcc_gap(S, r, start, last) ==
    [S EXCEPT !.acc = Put(S.acc, r, Get(S.acc, r, 0) + (now - start))]

\* Mutant of FoldAcc: the operands of the subtraction are swapped.
FoldAcc_neg(S, r, start, last) ==
    [S EXCEPT !.acc = Put(S.acc, r, Get(S.acc, r, 0) + (start - last))]

\* accumulated_time[repo] = accumulated_time.get(repo, 0) + (last - start)
FoldAcc(S, r, start, last) ==
    [S EXCEPT !.acc = Put(S.acc, r, Get(S.acc, r, 0) + (last - start))]

\* Mutant of ClearSpan: the folded span is left in place.
ClearSpan_keep(S, r) == S

\* active_sessions[repo] = (None, None)
ClearSpan(S, r) == [S EXCEPT !.as = Put(S.as, r, <<None, None>>)]

FoldSpan(S, r, start, last) == ClearSpan(FoldAcc(S, r, start, last), r)

\* One iteration of the loop over list(active_sessions.items()), for the
\* item (r, (start, last)) of the copied list.
IdleRepo(S, r, start, last, n) ==
    IF IsIdle(start, last, n) THEN FoldSpan(S, r, start, last) ELSE S

RECURSIVE SweepIdle(_, _, _)
SweepIdle(S, todo, n) ==
    IF todo = {} THEN S
    ELSE LET r == CHOOSE x \in todo : TRUE
         IN SweepIdle(IdleRepo(S, r, S.as[r][1], S.as[r][2], n), todo \ {r}, n)

check_idle_sessions(S, n) == SweepIdle(S, DOMAIN S.as, n)

\* ------------------------------------------- _check_commits / _handle_new_commit

\* Mutant of FilesChanged: only the watcher's own count is used.
FilesChanged_observed(S, r, g) == Cardinality(Get(S.fc, r, {}))

\* max(len(file_changes.get(repo_path, set())), git_files_changed)
FilesChanged(S, r, g) == Max(Cardinality(Get(S.fc, r, {})), g)

\* db.save_session(session_data): the record handed to the sink.  `paths` is
\* the set whose size entered files_changed, `git_files_changed` the count
\* get_git_stats returned.
Emit(S, r, h, total, g) ==
    [S EXCEPT !.rec[r] = Append(@, [duration |-> total, commit_hash |-> h,
                                    files_changed |-> FilesChanged(S, r, g),
                                    paths |-> Get(S.fc, r, {}),
                                    git_files_changed |-> g])]

\* accumulated_time[repo_path] = 0 ; file_changes[repo_path] = set()
ResetCounters(S, r) == [S EXCEPT !.acc = Put(S.acc, r, 0), !.fc = Put(S.fc, r, {})]

\* self.last_commits[repo_path] = commit_hash
SetLastCommit(S, r, h) == [S EXCEPT !.lc = Put(S.lc, r, h)]

\* Mutant of FinishFlush: the function returns right after the save.
FinishFlush_return(S, r, h) == S

\* The end of a flush: "Reset counters", then last_commits[repo_path] = commit_hash
FinishFlush(S, r, h) == SetLastCommit(ResetCounters(S, r), r, h)

\* `if start:` fold the active span (start, last) read at line 481
FoldActive(S, r, start, last) ==
    IF Truthy(start) THEN FoldSpan(S, r, start, last) ELSE S

\* Mutant of handle_new_commit: the counters are reset whether or not a
\* record is saved.
handle_new_commit_resetalways(S, r, h, g) ==
    LET sess  == SessionOf(S.as, r)
        S1    == FoldActive(S, r, sess[1], sess[2])
        total == Get(S1.acc, r, 0)
    IN  IF total > 0 THEN FinishFlush(Emit(S1, r, h, total, g), r, h)
        ELSE FinishFlush(S1, r, h)

\* Mutant of handle_new_commit: the hash is recorded only when a record is saved.
handle_new_commit_flushonly(S, r, h, g) ==
    LET sess  == SessionOf(S.as, r)
        S1    == FoldActive(S, r, sess[1], sess[2])
        total == Get(S1.acc, r, 0)
    IN  IF total > 0 THEN FinishFlush(Emit(S1, r, h, total, g), r, h)
        ELSE S1

handle_new_commit(S, r, h, g) ==
    LET sess  == SessionOf(S.as, r)
        S1    == FoldActive(S, r, sess[1], sess[2])
        total == Get(S1.acc, r, 0)
    IN  IF total > 0 THEN FinishFlush(Emit(S1, r, h, total, g), r, h)
        ELSE SetLastCommit(S1, r, h)

\* Mutant of CommitRepo: a repository without a recorded hash counts as changed.
CommitRepo_flushfirst(S, r, h, g) ==
    IF h = NoHead THEN S
    ELSE IF r \notin DOMAIN S.lc \/ h # S.lc[r] THEN handle_new_commit(S, r, h, g)
    ELSE S

\* One iteration of the loop over all_repos: h is the polled hash.
CommitRepo(S, r, h, g) ==
    IF h = NoHead THEN S
    ELSE IF r \notin DOMAIN S.lc THEN SetLastCommit(S, r, h)
    ELSE IF h # S.lc[r] THEN handle_new_commit(S, r, h, g)
    ELSE S

RECURSIVE SweepCommits(_, _, _, _)
SweepCommits(S, todo, hd, g) ==
    IF todo = {} THEN S
    ELSE LET r == CHOOSE x \in todo : TRUE
         IN SweepCommits(CommitRepo(S, r, hd[r], g[r]), todo \ {r}, hd, g)

\* all_repos = set(active_sessions.keys()) | set(accumulated_time.keys())
AllRepos(S) == (DOMAIN S.as) \cup (DOMAIN S.acc)

check_commits(S, hd, g) == SweepCommits(S, AllRepos(S), hd, g)

\* --------------------------------------------------- failures of the I/O

\* get_repo_root returns None: the path is in no git repository.
NoRepo == ""

\* Mutant of on_modified_path: the resolved root is not tested.
on_modified_path_unchecked(S, root, p, n) == on_modified(S, root, p, n)

\* on_modified for a file path that passed the filters: root is what
\* get_repo_root(event.src_path) returned.
on_modified_path(S, root, p, n) == IF root = NoRepo THEN S ELSE on_modified(S, root, p, n)

\* The iteration of _check_commits for r reaches the save: the polled hash h
\* differs from the recorded one and the total duration is positive.
Flushes(S, r, h) ==
    /\ h # NoHead
    /\ r \in DOMAIN S.lc
    /\ h # S.lc[r]
    /\ Get(FoldActive(S, r, SessionOf(S.as, r)[1], SessionOf(S.as, r)[2]).acc, r, 0) > 0

\* Mutant of LostFlush: the exception of save_session leaves the function.
LostFlush_abort(S, r, h) == FoldActive(S, r, SessionOf(S.as, r)[1], SessionOf(S.as, r)[2])

\* _handle_new_commit when db.save_session raises: the except clause at
\* lines 538-539 reports it and the function goes on to the reset.
LostFlush(S, r, h) ==
    FinishFlush(FoldActive(S, r, SessionOf(S.as, r)[1], SessionOf(S.as, r)[2]), r, h)

\* One iteration of _check_commits; saved: db.save_session did not raise.
CommitRepoIO(S, r, h, g, saved) ==
    IF Flushes(S, r, h) /\ ~saved THEN LostFlush(S, r, h) ELSE CommitRepo(S, r, h, g)

\* What the flush of the iteration reports about the sink.
SinkOutcome(S, r, h, saved, logged) ==
    IF ~Flushes(S, r, h) THEN "none"
    ELSE IF ~saved THEN "db"
    ELSE IF ~logged THEN "markdown"
    ELSE "ok"

\* _show_live_status, whole: the rows of the printed table.
show_live_status(S, n) ==
    {<<r, "Active", n - S.as[r][1], Cardinality(Get(S.fc, r, {}))>> :
        r \in {x \in DOMAIN S.as : Truthy(S.as[x][1])}}
    \cup {<<r, "Accumulated", S.acc[r], Cardinality(Get(S.fc, r, {}))>> :
        r \in {x \in DOMAIN S.acc : S.acc[x] > 0}}

\* ------------------------------------------------------------- history

\* Length of the span of r that the step from dict a to dict b closes.
ClosedBy(a, b, r) ==
    IF SessionOf(a, r)[1] # None /\ SessionOf(b, r)[1] = None
    THEN SessionOf(a, r)[2] - SessionOf(a, r)[1] ELSE 0

\* The records of r that the step to S2 hands to the sink.
NewRecords(S2, r) == SubSeq(S2.rec[r], Len(records[r]) + 1, Len(S2.rec[r]))

NextClosed(S2) ==
    [r \in Repos |-> IF NewRecords(S2, r) # <<>> THEN 0
                     ELSE closed[r] + ClosedBy(active_sessions, S2.as, r)]

\* P: the paths the step accepts for repository r0.
NextPending(S2, r0, P) ==
    [r \in Repos |->
        ((pending[r] \cup (IF r = r0 THEN P ELSE {}))
           \ UNION {NewRecords(S2, r)[i].paths : i \in DOMAIN NewRecords(S2, r)})]

NextBurst(r, n) ==
    [burst EXCEPT ![r] = IF @[1] # None THEN <<@[1], n>>
                         ELSE IF SessionOf(active_sessions, r)[1] = None THEN <<n, n>>
                         ELSE @]

NoBurst == [r \in Repos |-> <<None, None>>]

RECURSIVE Total(_, _)
Total(f, D) == IF D = {} THEN 0
               ELSE LET x == CHOOSE y \in D : TRUE IN f[x] + Total(f, D \ {x})

\* Neither thread is inside a handler.
Quiescent == wpc = "idle" /\ mpc = "sleep"

m0 == [now |-> 0, items |-> EmptyDict, todo |-> {}, repo |-> "", hash |-> NoHead,
       start |-> None, last |-> None, total |-> 0]
w0 == [repo |-> "", path |-> "", now |-> 0, start |-> None]
\* No call of the scorer has been made.
sc0 == [args |-> <<0, 0, 0>>, done |-> FALSE, out |-> <<0, 1>>]
\* No call of extract_task_name or of the diff-stat parser has been made.
pf0 == [fn |-> "", arg |-> <<>>, done |-> FALSE, out |-> <<>>]
\* The monitor loop sleeps in its first iteration: no tick has begun.
loop0 == [inflight |-> 0, afterStop |-> 0, log |-> <<>>]

ep0 == [base |-> [as |-> EmptyDict, acc |-> EmptyDict, lc |-> EmptyDict,
                  fc |-> EmptyDict, rec |-> [r \in Repos |-> <<>>]],
        nw |-> 0, nm |-> 0, wr |-> "", wp |-> "", wn |-> 0, mn |-> 0,
        hd |-> [r \in Repos |-> NoHead], g |-> [r \in Repos |-> 0]]

\* ------------------------------------------------------------- actions

\* r0, P: the repository and paths the step accepts (P = {} for the monitor).
Install(S2, r0, P) ==
    /\ active_sessions' = S2.as
    /\ accumulated_time' = S2.acc
    /\ last_commits' = S2.lc
    /\ file_changes' = S2.fc
    /\ records' = S2.rec
    /\ closed' = NextClosed(S2)
    /\ pending' = NextPending(S2, r0, P)

\* The state after EnhancedActivityTracker() and start_monitoring(), with
\* work going on in the repositories W.
InitWith(W) ==
    /\ watched = W
    /\ now = 0
    /\ head \in {hd \in [Repos -> {NoHead, 1}] : \A r \in Repos \ W : hd[r] = NoHead}
    /\ active_sessions = EmptyDict
    /\ accumulated_time = EmptyDict
    /\ last_commits = EmptyDict
    /\ file_changes = EmptyDict
    /\ records = [r \in Repos |-> <<>>]
    /\ mpc = "sleep"
    /\ m = m0
    /\ wpc = "idle"
    /\ w = w0
    /\ closed = [r \in Repos |-> 0]
    /\ pending = [r \in Repos |-> {}]
    /\ burst = NoBurst
    /\ commits = [r \in Repos |-> 0]
    /\ events = 0
    /\ lastOp = "other"
    /\ ep = ep0
    /\ table = {}
    /\ reported = {}
    /\ running = TRUE
    /\ loop = loop0

Init == InitWith(Repos) /\ sc = sc0 /\ pf = pf0

\* time passes
Advance ==
    /\ \E t \in Times : t > now /\ now' = t
    /\ lastOp' = "other"
    /\ ep' = IF Quiescent THEN ep0 ELSE ep
    /\ UNCHANGED <<running, loop, pf, sc, table, reported, watched, head, tracker, threads, closed, pending, burst, commits, events>>

\* a commit (or the loss of HEAD) in a repository
GitChange ==
    /\ Total(commits, Repos) < MaxCommits
    /\ \E r \in watched, h \in Hashes \cup {NoHead} :
          /\ h # head[r]
          /\ head' = [head EXCEPT ![r] = h]
          /\ commits' = [commits EXCEPT ![r] = @ + 1]
    /\ lastOp' = "other"
    /\ ep' = IF Quiescent THEN ep0 ELSE ep
    /\ UNCHANGED <<running, loop, pf, sc, table, reported, watched, now, tracker, threads, closed, pending, burst, events>>

\* on_modified, whole, for an accepted event on path p of repository r
OnModified ==
    /\ events < MaxEvents
    /\ \E r \in watched, p \in Paths :
          /\ Install(on_modified(Tracker, r, p, now), r, {p})
          /\ burst' = NextBurst(r, now)
    /\ events' = events + 1
    /\ lastOp' = "other"
    /\ UNCHANGED <<running, loop, pf, sc, table, reported, watched, now, head, threads, commits, ep>>

\* the monitor loop wakes up: _check_idle_sessions, whole
IdleSweep ==
    /\ mpc = "sleep"
    /\ mpc' = "swept"
    /\ Install(check_idle_sessions(Tracker, now), "", {})
    /\ burst' = NoBurst
    /\ lastOp' = IF lastOp \in {"tick", "tick2"} THEN "idle2" ELSE "idle1"
    /\ UNCHANGED <<running, loop, pf, sc, table, reported, watched, now, head, m, wpc, w, commits, events, ep>>

\* The files-changed counts get_git_stats returns in one sweep: it is called
\* (line 500) only for a repository whose flush saves a record; 0 stands for
\* no call.
GitStatsOf(S, hd) ==
    {g \in [Repos -> GitFiles] : \A r \in Repos : ~Flushes(S, r, hd[r]) => g[r] = 0}

\* _check_commits, whole; g: the files-changed counts git diff --stat reports
CommitSweep ==
    /\ mpc = "swept"
    /\ mpc' = "sleep"
    /\ \E g \in GitStatsOf(Tracker, head) : Install(check_commits(Tracker, head, g), "", {})
    /\ burst' = NoBurst
    /\ lastOp' = CASE lastOp = "idle1" -> "tick"
                   [] lastOp = "idle2" -> "tick2"
                   [] OTHER -> "other"
    /\ UNCHANGED <<running, loop, pf, sc, table, reported, watched, now, head, m, wpc, w, commits, events, ep>>

Next == Advance \/ GitChange \/ OnModified \/ IdleSweep \/ CommitSweep

Spec == Init /\ [][Next]_vars

\* --------------------------------------------- the two threads, interleaved

\* The operations that began since both threads last rested: the state they
\* started from and what each of them read from outside the tracker.
Spoiled == [ep0 EXCEPT !.nw = 2, !.nm = 2]

\* Exactly one on_modified and one tick began since both threads rested.
Overlapped == ep.nw = 1 /\ ep.nm = 1

\* on_modified lines 932-933: now = time.time(); start, last = active_sessions.get(...)
W_Begin ==
    /\ wpc = "idle"
    /\ events < MaxBurst
    /\ \E r \in watched, p \in Paths :
          /\ w' = [repo |-> r, path |-> p, now |-> now,
                   start |-> SessionOf(active_sessions, r)[1]]
          /\ ep' = IF Quiescent
                   THEN [ep0 EXCEPT !.base = Tracker, !.nw = 1,
                                    !.wr = r, !.wp = p, !.wn = now]
                   ELSE IF ep.nw = 0
                   THEN [ep EXCEPT !.nw = 1, !.wr = r, !.wp = p, !.wn = now]
                   ELSE Spoiled
    /\ wpc' = "add"
    /\ events' = events + 1
    /\ UNCHANGED <<running, loop, pf, sc, table, reported, watched, now, head, tracker, mpc, m, closed, pending, burst, commits, lastOp>>

\* on_modified lines 935-938: file_changes[repo_path].add(event.src_path)
W_Add ==
    /\ wpc = "add"
    /\ Install(AddPath(Tracker, w.repo, w.path), w.repo, {w.path})
    /\ wpc' = "touch"
    /\ UNCHANGED <<running, loop, pf, sc, table, reported, watched, now, head, mpc, m, w, burst, commits, events, lastOp, ep>>

\* on_modified lines 940-951: the write of active_sessions[repo_path], with
\* the start read at line 933
W_Touch ==
    /\ wpc = "touch"
    /\ Install(Touch(Tracker, w.repo, w.start, w.now), "", {})
    /\ wpc' = "idle"
    /\ w' = w0
    /\ ep' = IF mpc = "sleep" /\ ~Overlapped THEN ep0 ELSE ep
    /\ UNCHANGED <<running, loop, pf, sc, table, reported, watched, now, head, mpc, m, burst, commits, events, lastOp>>

\* _monitor_loop line 403 returns; _check_idle_sessions lines 417-421:
\* now = time.time(); list(self.active_sessions.items())
M_Wake ==
    /\ mpc = "sleep"
    /\ m' = [m0 EXCEPT !.now = now, !.items = active_sessions,
                       !.todo = DOMAIN active_sessions]
    /\ ep' = IF Quiescent THEN [ep0 EXCEPT !.base = Tracker, !.nm = 1, !.mn = now]
             ELSE IF ep.nm = 0 THEN [ep EXCEPT !.nm = 1, !.mn = now]
             ELSE Spoiled
    /\ mpc' = "idle"
    /\ UNCHANGED <<running, loop, pf, sc, table, reported, watched, now, head, tracker, wpc, w, closed, pending, burst, commits,
                   events, lastOp>>

\* _check_idle_sessions lines 421-434: one iteration over the copied items
M_IdleRepo ==
    /\ mpc = "idle"
    /\ \E r \in m.todo :
          /\ Install(IdleRepo(Tracker, r, m.items[r][1], m.items[r][2], m.now), "", {})
          /\ m' = [m EXCEPT !.todo = @ \ {r}]
    /\ UNCHANGED <<running, loop, pf, sc, table, reported, watched, now, head, mpc, wpc, w, burst, commits, events, lastOp, ep>>

\* the loop of _check_idle_sessions ends and the function returns, so its
\* locals (now of line 417, the list copy of line 421) are gone;
\* _check_commits line 441: all_repos
M_IdleDone ==
    /\ mpc = "idle"
    /\ m.todo = {}
    /\ m' = [m EXCEPT !.now = 0, !.items = EmptyDict, !.todo = AllRepos(Tracker)]
    /\ mpc' = "poll"
    /\ UNCHANGED <<running, loop, pf, sc, table, reported, watched, now, head, tracker, wpc, w, closed, pending, burst, commits,
                   events, lastOp, ep>>

\* _check_commits lines 444-473: one iteration; a changed hash enters
\* _handle_new_commit
M_Poll ==
    /\ mpc = "poll"
    /\ \E r \in m.todo :
          /\ ep' = [ep EXCEPT !.hd[r] = head[r]]
          /\ IF head[r] # NoHead /\ r \in DOMAIN last_commits /\ head[r] # last_commits[r]
             THEN /\ m' = [m EXCEPT !.todo = @ \ {r}, !.repo = r, !.hash = head[r]]
                  /\ mpc' = "read"
                  /\ UNCHANGED <<tracker, closed, pending>>
             ELSE /\ Install(CommitRepo(Tracker, r, head[r], 0), "", {})
                  /\ m' = [m EXCEPT !.todo = @ \ {r}]
                  /\ mpc' = "poll"
    /\ UNCHANGED <<running, loop, pf, sc, table, reported, watched, now, head, wpc, w, burst, commits, events, lastOp>>

\* _handle_new_commit line 481: start, last = self.active_sessions.get(...)
M_ReadSess ==
    /\ mpc = "read"
    /\ m' = [m EXCEPT !.start = SessionOf(active_sessions, m.repo)[1],
                      !.last = SessionOf(active_sessions, m.repo)[2]]
    /\ mpc' = "fold"
    /\ UNCHANGED <<running, loop, pf, sc, table, reported, watched, now, head, tracker, wpc, w, closed, pending, burst, commits,
                   events, lastOp, ep>>

\* _handle_new_commit lines 482-497 (and 565-568 when nothing accumulated)
M_Fold ==
    /\ mpc = "fold"
    /\ LET S1    == FoldActive(Tracker, m.repo, m.start, m.last)
           total == Get(S1.acc, m.repo, 0)
       IN  IF total > 0
           THEN /\ Install(S1, "", {})
                /\ m' = [m EXCEPT !.start = None, !.last = None, !.total = total]
                /\ mpc' = "emit"
           ELSE /\ Install(SetLastCommit(S1, m.repo, m.hash), "", {})
                /\ m' = [m EXCEPT !.start = None, !.last = None,
                                  !.repo = "", !.hash = NoHead]
                /\ mpc' = "poll"
    /\ UNCHANGED <<running, loop, pf, sc, table, reported, watched, now, head, wpc, w, burst, commits, events, lastOp, ep>>

\* _handle_new_commit lines 498-560: git stats, files_changed, the save
M_Emit ==
    /\ mpc = "emit"
    /\ \E g \in GitFiles :
          /\ Install(Emit(Tracker, m.repo, m.hash, m.total, g), "", {})
          /\ ep' = [ep EXCEPT !.g[m.repo] = g]
    /\ mpc' = "reset"
    /\ UNCHANGED <<running, loop, pf, sc, table, reported, watched, now, head, m, wpc, w, burst, commits, events, lastOp>>

\* _handle_new_commit lines 562-568
M_Reset ==
    /\ mpc = "reset"
    /\ Install(FinishFlush(Tracker, m.repo, m.hash), "", {})
    /\ m' = [m EXCEPT !.repo = "", !.hash = NoHead, !.total = 0]
    /\ mpc' = "poll"
    /\ UNCHANGED <<running, loop, pf, sc, table, reported, watched, now, head, wpc, w, burst, commits, events, lastOp, ep>>

\* the loop of _check_commits ends; _monitor_loop sleeps again
M_CommitsDone ==
    /\ mpc = "poll"
    /\ m.todo = {}
    /\ m' = m0
    /\ mpc' = "sleep"
    /\ ep' = IF wpc = "idle" /\ ~Overlapped THEN ep0 ELSE ep
    /\ UNCHANGED <<running, loop, pf, sc, table, reported, watched, now, head, tracker, wpc, w, closed, pending, burst, commits,
                   events, lastOp>>

ConcNext ==
    \/ Advance \/ GitChange
    \/ W_Begin \/ W_Add \/ W_Touch
    \/ M_Wake \/ M_IdleRepo \/ M_IdleDone \/ M_Poll \/ M_ReadSess
    \/ M_Fold \/ M_Emit \/ M_Reset \/ M_CommitsDone

\* One repository is being worked in: the repositories do not share state.
ConcInit == InitWith({"r1"}) /\ sc = sc0 /\ pf = pf0

ConcSpec == ConcInit /\ [][ConcNext]_vars

\* ------------------------------------ the monitor loop with failing I/O

\* The locals of one commit sweep: the repositories still to poll, all_repos,
\* those polled, those whose poll failed, the one of the last iteration and
\* what its flush reported about the sink.
f0(all) == [todo |-> all, all |-> all, polled |-> {}, failed |-> {}, repo |-> NoRepo,
            sink |-> "none"]

\* on_modified for a path that get_repo_root does not resolve
DropEvent ==
    /\ events < MaxEvents
    /\ \E p \in Paths : Install(on_modified_path(Tracker, NoRepo, p, now), NoRepo, {})
    /\ events' = events + 1
    /\ lastOp' = "drop"
    /\ UNCHANGED <<running, loop, pf, sc, table, reported, watched, now, head, threads, burst, commits, ep>>

\* _monitor_loop lines 403-404 and line 441: the sleep ends, the idle sweep
\* runs, all_repos is computed
F_Wake ==
    /\ mpc = "sleep"
    /\ Install(check_idle_sessions(Tracker, now), NoRepo, {})
    /\ m' = f0(AllRepos(check_idle_sessions(Tracker, now)))
    /\ mpc' = "fpoll"
    /\ burst' = NoBurst
    /\ lastOp' = "other"
    /\ UNCHANGED <<running, loop, pf, sc, table, reported, watched, now, head, wpc, w, commits, events, ep>>

\* _check_commits lines 444-473: one iteration whose poll returns (a hash, or
\* CalledProcessError); saved, logged: the two writes of the sink succeed
F_Poll ==
    /\ mpc = "fpoll"
    /\ \E r \in m.todo, g \in GitFiles, saved \in BOOLEAN, logged \in BOOLEAN :
          LET sink == SinkOutcome(Tracker, r, head[r], saved, logged)
          IN  /\ Install(CommitRepoIO(Tracker, r, head[r], g, saved), NoRepo, {})
              /\ m' = [m EXCEPT !.todo = @ \ {r}, !.repo = r, !.sink = sink,
                                !.polled = IF head[r] # NoHead THEN @ \cup {r} ELSE @,
                                !.failed = IF head[r] = NoHead THEN @ \cup {r} ELSE @]
              /\ reported' = reported \cup (IF head[r] = NoHead THEN {"poll"} ELSE {})
                                      \cup (IF sink \in {"db", "markdown"} THEN {sink} ELSE {})
    /\ burst' = NoBurst
    /\ lastOp' = "other"
    /\ UNCHANGED <<running, loop, pf, sc, table, watched, now, head, mpc, wpc, w, commits, events, ep>>

\* _check_commits lines 446-452: subprocess.check_output cannot start git
\* (OSError, not CalledProcessError): the exception leaves _check_commits and
\* _monitor_loop, whose only except clause is for KeyboardInterrupt
F_PollRaises ==
    /\ mpc = "fpoll"
    /\ \E r \in m.todo :
          m' = [m EXCEPT !.todo = @ \ {r}, !.repo = r, !.failed = @ \cup {r}]
    /\ mpc' = "dead"
    /\ reported' = reported \cup {"git"}
    /\ lastOp' = "other"
    /\ UNCHANGED <<running, loop, pf, sc, table, watched, now, head, tracker, wpc, w, closed, pending, burst,
                   commits, events, ep>>

\* _check_commits lines 446-452: the git subprocess never returns
\* (check_output is called without a timeout)
F_PollHangs ==
    /\ mpc = "fpoll"
    /\ \E r \in m.todo : m' = [m EXCEPT !.todo = @ \ {r}, !.repo = r]
    /\ mpc' = "hung"
    /\ lastOp' = "other"
    /\ UNCHANGED <<running, loop, pf, sc, table, reported, watched, now, head, tracker, wpc, w, closed, pending,
                   burst, commits, events, ep>>

\* _monitor_loop lines 407-410: the sweep is over; status_counter has reached
\* 20 or not (ticks are not counted here: any tick may be the twentieth)
F_Done ==
    /\ mpc = "fpoll"
    /\ m.todo = {}
    /\ m' = m0
    /\ mpc' \in {"sleep", "status"}
    /\ lastOp' = "other"
    /\ UNCHANGED <<running, loop, pf, sc, table, reported, watched, now, head, tracker, wpc, w, closed, pending,
                   burst, commits, events, ep>>

\* _monitor_loop line 409: _show_live_status returns
F_Status ==
    /\ mpc = "status"
    /\ table' = show_live_status(Tracker, now)
    /\ mpc' = "sleep"
    /\ lastOp' = "other"
    /\ UNCHANGED <<running, loop, pf, sc, reported, watched, now, head, tracker, m, wpc, w, closed, pending,
                   burst, commits, events, ep>>

\* _monitor_loop line 409: _show_live_status raises; the exception leaves
\* _monitor_loop
F_StatusRaises ==
    /\ mpc = "status"
    /\ mpc' = "dead"
    /\ reported' = reported \cup {"status"}
    /\ lastOp' = "other"
    /\ UNCHANGED <<running, loop, pf, sc, table, watched, now, head, tracker, m, wpc, w, closed, pending,
                   burst, commits, events, ep>>

\* The steps of the monitor thread.
MonitorStep ==
    F_Wake \/ F_Poll \/ F_PollRaises \/ F_PollHangs \/ F_Done \/ F_Status \/ F_StatusRaises

FaultNext == Advance \/ GitChange \/ OnModified \/ DropEvent \/ MonitorStep

\* Work in one repository.
FaultInit == InitWith({"r1"}) /\ sc = sc0 /\ pf = pf0

FaultSpec == FaultInit /\ [][FaultNext]_vars

\* Work in both repositories; the monitor thread runs whenever it can.
LiveSpec == Init /\ [][FaultNext]_vars /\ WF_vars(MonitorStep)

\* ----------------------- _show_live_status, interleaved with on_modified

\* The locals of _show_live_status: the iterator over
\* active_sessions.items() (the dict's size when it was created and the keys
\* it has not yielded), active_count, the item of the current iteration and
\* the rows added to the table.
s0(keys) == [size |-> Cardinality(keys), left |-> keys, active |-> 0, repo |-> NoRepo,
             start |-> None, rows |-> {}]

\* The rows of the second loop (lines 612-620), read in one step:
\* accumulated_time is written by the monitor thread only.
AccumulatedRows(S) ==
    {<<r, "Accumulated", S.acc[r], Cardinality(Get(S.fc, r, {}))>> :
        r \in {x \in DOMAIN S.acc : S.acc[x] > 0}}

\* The display ends: both threads may have come to rest.
StatusEnds == ep' = IF wpc = "idle" /\ ~Overlapped THEN ep0 ELSE ep

\* _monitor_loop lines 403-405, whole, while the watcher is at rest
S_Tick ==
    /\ mpc = "sleep"
    /\ wpc = "idle"
    /\ \E g \in GitStatsOf(check_idle_sessions(Tracker, now), head) :
          Install(check_commits(check_idle_sessions(Tracker, now), head, g), NoRepo, {})
    /\ ep' = ep0
    /\ burst' = NoBurst
    /\ lastOp' = "other"
    /\ UNCHANGED <<running, loop, pf, sc, table, reported, watched, now, head, threads, commits, events>>

\* _monitor_loop line 409 and _show_live_status line 589: the display is due;
\* the list comprehension creates its iterator over active_sessions.items()
S_Begin ==
    /\ mpc = "sleep"
    /\ m' = s0(DOMAIN active_sessions)
    /\ mpc' = "count"
    /\ ep' = IF Quiescent THEN [ep0 EXCEPT !.base = Tracker, !.nm = 1, !.mn = now]
             ELSE IF ep.nm = 0 THEN [ep EXCEPT !.nm = 1, !.mn = now]
             ELSE Spoiled
    /\ UNCHANGED <<running, loop, pf, sc, table, reported, watched, now, head, tracker, wpc, w, closed, pending,
                   burst, commits, events, lastOp>>

\* lines 589 and 600: the iterator finds the size of active_sessions changed
\* ("dictionary changed size during iteration"); the RuntimeError leaves
\* _show_live_status and _monitor_loop
S_Raise ==
    /\ mpc \in {"count", "rows"}
    /\ Cardinality(DOMAIN active_sessions) # m.size
    /\ mpc' = "dead"
    /\ reported' = reported \cup {"status"}
    /\ StatusEnds
    /\ UNCHANGED <<running, loop, pf, sc, table, watched, now, head, tracker, m, wpc, w, closed, pending, burst,
                   commits, events, lastOp>>

\* line 589: the iterator yields the item of r; `if s` counts it
S_Count ==
    /\ mpc = "count"
    /\ Cardinality(DOMAIN active_sessions) = m.size
    /\ \E r \in m.left :
          m' = [m EXCEPT !.left = @ \ {r},
                         !.active = IF Truthy(active_sessions[r][1]) THEN @ + 1 ELSE @]
    /\ UNCHANGED <<running, loop, pf, sc, table, reported, watched, now, head, tracker, mpc, wpc, w, closed,
                   pending, burst, commits, events, lastOp, ep>>

\* lines 589-600: the first iteration is over; accumulated_count; either
\* nothing is shown or the loop over active_sessions.items() begins
S_CountEnd ==
    /\ mpc = "count"
    /\ Cardinality(DOMAIN active_sessions) = m.size
    /\ m.left = {}
    /\ IF m.active > 0 \/ AccumulatedRows(Tracker) # {}
       THEN /\ m' = [s0(DOMAIN active_sessions) EXCEPT !.active = m.active]
            /\ mpc' = "rows"
            /\ UNCHANGED <<table, ep>>
       ELSE /\ m' = m0
            /\ mpc' = "sleep"
            /\ table' = {}
            /\ StatusEnds
    /\ UNCHANGED <<running, loop, pf, sc, reported, watched, now, head, tracker, wpc, w, closed, pending, burst,
                   commits, events, lastOp>>

\* lines 600-601: the iterator yields the item of r; `if start`
S_Row ==
    /\ mpc = "rows"
    /\ Cardinality(DOMAIN active_sessions) = m.size
    /\ \E r \in m.left :
          IF Truthy(active_sessions[r][1])
          THEN /\ m' = [m EXCEPT !.left = @ \ {r}, !.repo = r,
                                 !.start = active_sessions[r][1]]
               /\ mpc' = "files"
          ELSE /\ m' = [m EXCEPT !.left = @ \ {r}]
               /\ mpc' = "rows"
    /\ UNCHANGED <<running, loop, pf, sc, table, reported, watched, now, head, tracker, wpc, w, closed, pending,
                   burst, commits, events, lastOp, ep>>

\* lines 602-609: duration = time.time() - start; files = len(file_changes...)
S_Files ==
    /\ mpc = "files"
    /\ m' = [m EXCEPT !.rows = @ \cup {<<m.repo, "Active", now - m.start,
                                          Cardinality(Get(file_changes, m.repo, {}))>>},
                      !.repo = NoRepo, !.start = None]
    /\ mpc' = "rows"
    /\ UNCHANGED <<running, loop, pf, sc, table, reported, watched, now, head, tracker, wpc, w, closed, pending,
                   burst, commits, events, lastOp, ep>>

\* lines 612-622: the loop over active_sessions.items() is over; the rows of
\* the accumulated times; console.print(table)
S_RowsEnd ==
    /\ mpc = "rows"
    /\ Cardinality(DOMAIN active_sessions) = m.size
    /\ m.left = {}
    /\ table' = m.rows \cup AccumulatedRows(Tracker)
    /\ m' = m0
    /\ mpc' = "sleep"
    /\ StatusEnds
    /\ UNCHANGED <<running, loop, pf, sc, reported, watched, now, head, tracker, wpc, w, closed, pending, burst,
                   commits, events, lastOp>>

StatusNext ==
    \/ Advance
    \/ W_Begin \/ W_Add \/ W_Touch
    \/ S_Tick
    \/ S_Begin \/ S_Raise \/ S_Count \/ S_CountEnd \/ S_Row \/ S_Files \/ S_RowsEnd

StatusSpec == ConcInit /\ [][StatusNext]_vars

\* ------------------------------------- the monitor loop and its shutdown

\* Mutant of TickSteps: the commit sweep is called before the idle sweep.
TickSteps_swapped == <<"commits", "idle">>

\* _monitor_loop lines 404-405: the calls of one iteration, in order.
TickSteps == <<"idle", "commits">>

\* Mutant of MayWake: a timer starts a tick at every interval, whether or not
\* the previous one has returned.
MayWake_timer(pc) == pc \in {"sleep", "tick"}

\* _monitor_loop lines 402-404: a tick begins when the time.sleep of the same
\* loop iteration returns, and at no other point.
MayWake(pc) == pc = "sleep"

\* Mutant of LoopContinues: `while True`.
LoopContinues_forever(run) == TRUE

\* _monitor_loop line 402: while self.running
LoopContinues(run) == run

\* The locals of one iteration of the loop: the next call of TickSteps.
t0 == [step |-> 1]

\* What the call `op` of a tick does to the tracker.
TickCall(op, S, n, hd, g) ==
    IF op = "idle" THEN check_idle_sessions(S, n) ELSE check_commits(S, hd, g)

\* a change event while the observer runs
L_Event == running /\ OnModified

\* line 403: time.sleep(SCAN_INTERVAL) returns
L_Wake ==
    /\ MayWake(mpc)
    /\ mpc' = "tick"
    /\ m' = t0
    /\ loop' = [inflight |-> loop.inflight + 1,
                afterStop |-> loop.afterStop + (IF running THEN 0 ELSE 1),
                log |-> <<>>]
    /\ lastOp' = "other"
    /\ UNCHANGED <<running, pf, sc, table, reported, watched, now, head, tracker, wpc, w,
                   closed, pending, burst, commits, events, ep>>

\* lines 404-405: the next call of the tick, whole
L_Step ==
    /\ mpc = "tick"
    /\ m.step <= Len(TickSteps)
    /\ LET op == TickSteps[m.step]
       IN  /\ \E g \in (IF op = "idle" THEN {[r \in Repos |-> 0]}
                        ELSE GitStatsOf(Tracker, head)) :
                 Install(TickCall(op, Tracker, now, head, g), NoRepo, {})
           /\ loop' = [loop EXCEPT !.log = Append(@, [op |-> op, at |-> now])]
    /\ m' = [m EXCEPT !.step = @ + 1]
    /\ burst' = NoBurst
    /\ lastOp' = "other"
    /\ UNCHANGED <<running, pf, sc, table, reported, watched, now, head, mpc, wpc, w, commits,
                   events, ep>>

\* lines 407-410 and 402: the status display when it is due (it prints and
\* changes nothing of the tracker or of the loop), then the test of the loop
L_TickEnd ==
    /\ mpc = "tick"
    /\ m.step > Len(TickSteps)
    /\ mpc' = IF LoopContinues(running) THEN "sleep" ELSE "exited"
    /\ m' = m0
    /\ loop' = [loop EXCEPT !.inflight = @ - 1, !.log = <<>>]
    /\ lastOp' = "other"
    /\ UNCHANGED <<running, pf, sc, table, reported, watched, now, head, tracker, wpc, w,
                   closed, pending, burst, commits, events, ep>>

\* cmd_start lines 1776-1778: Ctrl+C in the main thread; stop_monitoring
\* lines 626-629: running = False, the observer is stopped
StopMonitoring ==
    /\ running
    /\ running' = FALSE
    /\ lastOp' = "other"
    /\ UNCHANGED <<loop, pf, sc, table, reported, watched, now, head, tracker, threads, closed,
                   pending, burst, commits, events, ep>>

\* cmd_start returns after stop_monitoring and the process ends: the monitor
\* thread is a daemon (line 392) and is abandoned wherever it is
ProcessExit ==
    /\ ~running
    /\ mpc \notin {"exited", "killed"}
    /\ mpc' = "killed"
    /\ m' = m0
    /\ loop' = [loop EXCEPT !.inflight = 0, !.log = <<>>]
    /\ lastOp' = "other"
    /\ UNCHANGED <<running, pf, sc, table, reported, watched, now, head, tracker, wpc, w,
                   closed, pending, burst, commits, events, ep>>

\* The steps of the monitor thread and the end of the process.
LoopStep == L_Wake \/ L_Step \/ L_TickEnd \/ ProcessExit

\* Time, commits and events are followed while the process lives.
LoopNext ==
    \/ (mpc \notin {"exited", "killed"} /\ (Advance \/ GitChange \/ L_Event))
    \/ StopMonitoring
    \/ LoopStep

\* Work in one repository; the process ends once stop_monitoring has
\* returned (nothing is assumed of the scheduling of the monitor thread).
LoopSpec == FaultInit /\ [][LoopNext]_vars /\ WF_vars(ProcessExit)

\* ----------------------------- a commit with nothing accumulated, and after

\* The repository r has had a commit that a poll detected without saving a
\* record, and paths of r are waiting to be counted.
CommitWithoutRecord(r) ==
    /\ commits[r] >= 1
    /\ r \in DOMAIN last_commits
    /\ last_commits[r] = head[r]
    /\ records[r] = <<>>
    /\ Get(file_changes, r, {}) # {}

\* on_modified, whole, for one more accepted event after such a commit
LaterEvent ==
    /\ events = MaxEvents
    /\ \E r \in watched, p \in Paths :
          /\ CommitWithoutRecord(r)
          /\ Install(on_modified(Tracker, r, p, now), r, {p})
          /\ burst' = NextBurst(r, now)
    /\ events' = events + 1
    /\ lastOp' = "other"
    /\ UNCHANGED <<running, loop, pf, sc, table, reported, watched, now, head, threads, commits, ep>>

\* the next commit in a repository after such a commit
NextCommit ==
    /\ Total(commits, Repos) = MaxCommits
    /\ \E r \in watched, h \in Hashes :
          /\ CommitWithoutRecord(r)
          /\ h # head[r]
          /\ head' = [head EXCEPT ![r] = h]
          /\ commits' = [commits EXCEPT ![r] = @ + 1]
    /\ lastOp' = "other"
    /\ ep' = IF Quiescent THEN ep0 ELSE ep
    /\ UNCHANGED <<running, loop, pf, sc, table, reported, watched, now, tracker, threads, closed, pending, burst, events>>

FilesNext ==
    \/ Advance \/ GitChange \/ OnModified \/ IdleSweep \/ CommitSweep
    \/ LaterEvent \/ NextCommit

FilesSpec == FaultInit /\ [][FilesNext]_vars

\* ------------------------------------------- the ticks, scheduled fairly

\* The handlers as single steps in one repository; the monitor thread keeps
\* running, so a sweep that can be taken is taken.
TickRepos == {"r1"}
TickSpec == InitWith(TickRepos) /\ sc = sc0 /\ pf = pf0 /\ [][Next]_vars
            /\ WF_vars(IdleSweep) /\ WF_vars(CommitSweep)

\* ------------------------------------------------------------- strings

\* A str is a sequence of characters (strings of length one).
Lowers == <<"a", "b", "c", "d", "e", "f", "g", "h", "i", "j", "k", "l", "m",
            "n", "o", "p", "q", "r", "s", "t", "u", "v", "w", "x", "y", "z">>
Uppers == <<"A", "B", "C", "D", "E", "F", "G", "H", "I", "J", "K", "L", "M",
            "N", "O", "P", "Q", "R", "S", "T", "U", "V", "W", "X", "Y", "Z">>
Digits == <<"0", "1", "2", "3", "4", "5", "6", "7", "8", "9">>

IsLower(c) == \E i \in 1 .. 26 : Lowers[i] = c
IsUpper(c) == \E i \in 1 .. 26 : Uppers[i] = c
IsLetter(c) == IsLower(c) \/ IsUpper(c)
IsDigit(c) == \E i \in 1 .. 10 : Digits[i] = c
\* \s and str.split(): blank, newline, tab
IsSpace(c) == c \in {" ", "\n", "\t"}

\* str.upper() and str.lower() of one character
ToUpper(c) == IF IsLower(c) THEN Uppers[CHOOSE i \in 1 .. 26 : Lowers[i] = c] ELSE c
ToLower(c) == IF IsUpper(c) THEN Lowers[CHOOSE i \in 1 .. 26 : Uppers[i] = c] ELSE c

\* s[i-1:j] of Python, with 1-based inclusive bounds; empty when j < i
Slice(s, i, j) == IF j < i THEN <<>> ELSE SubSeq(s, i, j)

\* The least position >= i of s at which P fails, Len(s) + 1 if there is none:
\* the end of the run of characters that a greedy P* matches from i.
RunEnd(s, i, P(_)) ==
    IF \E j \in i .. Len(s) : ~P(s[j])
    THEN CHOOSE j \in i .. Len(s) : ~P(s[j]) /\ \A k \in i .. j - 1 : P(s[k])
    ELSE Len(s) + 1

\* s[i-1:].lower().startswith(word.lower())
StartsWithCI(s, i, word) ==
    /\ i + Len(word) - 1 <= Len(s)
    /\ \A k \in 1 .. Len(word) : ToLower(s[i + k - 1]) = ToLower(word[k])

\* sub in s
Contains(s, sub) ==
    \E i \in 1 .. Len(s) - Len(sub) + 1 : SubSeq(s, i, i + Len(sub) - 1) = sub

\* str.split(): the maximal runs of characters that are not whitespace
RECURSIVE Split(_)
Split(s) ==
    LET a == RunEnd(s, 1, IsSpace)
        b == RunEnd(s, a, LAMBDA c : ~IsSpace(c))
    IN  IF a > Len(s) THEN <<>>
        ELSE <<Slice(s, a, b - 1)>> \o Split(Slice(s, b, Len(s)))

\* " ".join(words)
RECURSIVE Join(_)
Join(words) ==
    IF words = <<>> THEN <<>>
    ELSE IF Len(words) = 1 THEN words[1]
    ELSE words[1] \o <<" ">> \o Join(Tail(words))

\* str.strip(chars): chars removed from both ends
StripChars(s, P(_)) ==
    LET a == RunEnd(s, 1, P)
    IN  IF a > Len(s) THEN <<>>
        ELSE Slice(s, a, CHOOSE j \in a .. Len(s) :
                            ~P(s[j]) /\ \A k \in j + 1 .. Len(s) : P(s[k]))

\* str.isupper(): some cased character, none of them lower case
IsUpperStr(s) ==
    /\ \E i \in 1 .. Len(s) : IsUpper(s[i])
    /\ \A i \in 1 .. Len(s) : ~IsLower(s[i])

\* str.capitalize()
Capitalize(s) ==
    [i \in 1 .. Len(s) |-> IF i = 1 THEN ToUpper(s[i]) ELSE ToLower(s[i])]

\* str.title(): a letter is upper case iff no letter precedes it directly
Title(s) ==
    [i \in 1 .. Len(s) |->
        IF i = 1 \/ ~IsLetter(s[i - 1]) THEN ToUpper(s[i]) ELSE ToLower(s[i])]

\* str.replace(old, " ") for the one-character strings old of a set
ReplaceBySpace(s, old) == [i \in 1 .. Len(s) |-> IF s[i] \in old THEN " " ELSE s[i]]

\* ------------------------------------------------------ extract_task_name

\* A character `.` and `[^,\n]` match.
NotNewline(c) == c # "\n"
NotCommaNewline(c) == c \notin {",", "\n"}

\* The result of re.search: whether the pattern matched, and its groups
\* (an absent or empty group is the empty str: both are falsy).
NoMatch == [found |-> FALSE, g1 |-> <<>>, g2 |-> <<>>]
Match(a, b) == [found |-> TRUE, g1 |-> a, g2 |-> b]

\* `\s*(X+)` from position j of s, X a class that excludes the newline: the
\* start of the group.  \s* is greedy and gives characters back until X+
\* can match; 0 when it cannot.
GroupStart(s, j, X(_)) ==
    LET e == RunEnd(s, j, IsSpace)
    IN  IF e <= Len(s) /\ X(s[e]) THEN e
        ELSE IF \E p \in j .. e - 1 : X(s[p])
        THEN CHOOSE p \in j .. e - 1 : X(s[p]) /\ \A q \in p + 1 .. e - 1 : ~X(s[q])
        ELSE 0

\* `(?::\s*(.+))?` from position k of s: the group (.+), empty when the
\* optional part does not match.
Description(s, k) ==
    IF k <= Len(s) /\ s[k] = ":" /\ GroupStart(s, k + 1, NotNewline) # 0
    THEN LET a == GroupStart(s, k + 1, NotNewline)
         IN  Slice(s, a, RunEnd(s, a, NotNewline) - 1)
    ELSE <<>>

\* The least element of a non-empty set of positions.
Least(I) == CHOOSE i \in I : \A j \in I : i <= j

\* r"([A-Z]+-\d+)(?::\s*(.+))?" with re.IGNORECASE
SearchJira(s) ==
    LET ok(i) == /\ IsLetter(s[i])
                 /\ LET j == RunEnd(s, i, IsLetter)
                    IN  j + 1 <= Len(s) /\ s[j] = "-" /\ IsDigit(s[j + 1])
        I == {i \in 1 .. Len(s) : ok(i)}
    IN  IF I = {} THEN NoMatch
        ELSE LET i == Least(I)
                 k == RunEnd(s, RunEnd(s, i, IsLetter) + 1, IsDigit)
             IN  Match(Slice(s, i, k - 1), Description(s, k))

\* r"(?:fix(?:es)?|close(?:s)?|resolve(?:s)?)?\s*#(\d+)(?::\s*(.+))?": the
\* optional words and blanks before `#` are in no group
SearchIssue(s) ==
    LET I == {i \in 1 .. Len(s) - 1 : s[i] = "#" /\ IsDigit(s[i + 1])}
    IN  IF I = {} THEN NoMatch
        ELSE LET k == RunEnd(s, Least(I) + 1, IsDigit)
             IN  Match(Slice(s, Least(I) + 1, k - 1), Description(s, k))

\* r"\[([^\]]+)\](?::\s*(.+))?"
SearchBracket(s) ==
    LET close(i) == RunEnd(s, i + 1, LAMBDA c : c # "]")
        I == {i \in 1 .. Len(s) : s[i] = "[" /\ close(i) <= Len(s) /\ close(i) > i + 1}
    IN  IF I = {} THEN NoMatch
        ELSE LET i == Least(I)
             IN  Match(Slice(s, i + 1, close(i) - 1), Description(s, close(i) + 1))

\* feat(?:ure)?|fix|bug|chore|docs?|refactor|style|test
Prefixes ==
    {<<"f", "e", "a", "t">>, <<"f", "e", "a", "t", "u", "r", "e">>, <<"f", "i", "x">>,
     <<"b", "u", "g">>, <<"c", "h", "o", "r", "e">>, <<"d", "o", "c">>,
     <<"d", "o", "c", "s">>, <<"r", "e", "f", "a", "c", "t", "o", "r">>,
     <<"s", "t", "y", "l", "e">>, <<"t", "e", "s", "t">>}

\* r"(?:feat(?:ure)?|fix|bug|chore|docs?|refactor|style|test):\s*([^,\n]+)"
SearchPrefix(s) ==
    LET colon(i) == {i + Len(p) : p \in {q \in Prefixes : StartsWithCI(s, i, q)}}
        ok(i) == \E c \in colon(i) :
                    c <= Len(s) /\ s[c] = ":" /\ GroupStart(s, c + 1, NotCommaNewline) # 0
        I == {i \in 1 .. Len(s) : ok(i)}
    IN  IF I = {} THEN NoMatch
        ELSE LET c == CHOOSE c \in colon(Least(I)) :
                         c <= Len(s) /\ s[c] = ":"
                         /\ GroupStart(s, c + 1, NotCommaNewline) # 0
                 a == GroupStart(s, c + 1, NotCommaNewline)
             IN  Match(Slice(s, a, RunEnd(s, a, NotCommaNewline) - 1), <<>>)

\* Add|Fix|Update|Implement|Create|Remove|Delete|Refactor|Optimize|Improve
Verbs ==
    {<<"A", "d", "d">>, <<"F", "i", "x">>, <<"U", "p", "d", "a", "t", "e">>,
     <<"I", "m", "p", "l", "e", "m", "e", "n", "t">>, <<"C", "r", "e", "a", "t", "e">>,
     <<"R", "e", "m", "o", "v", "e">>, <<"D", "e", "l", "e", "t", "e">>,
     <<"R", "e", "f", "a", "c", "t", "o", "r">>, <<"O", "p", "t", "i", "m", "i", "z", "e">>,
     <<"I", "m", "p", "r", "o", "v", "e">>}

\* r"^((?:Add|Fix|...|Improve)[^,\n]*)"
SearchVerb(s) ==
    IF \E v \in Verbs : StartsWithCI(s, 1, v)
    THEN Match(Slice(s, 1, RunEnd(s, 1, NotCommaNewline) - 1), <<>>)
    ELSE NoMatch

\* Mutant of patterns: the conventional-commit prefixes are tried first.
patterns_prefixfirst == <<"prefix", "jira", "issue", "bracket", "verb">>

\* The list `patterns` of lines 999-1010, in its order.
patterns == <<"jira", "issue", "bracket", "prefix", "verb">>

\* re.search(pattern, commit_message, re.IGNORECASE)
Search(rule, s) ==
    CASE rule = "jira" -> SearchJira(s)
      [] rule = "issue" -> SearchIssue(s)
      [] rule = "bracket" -> SearchBracket(s)
      [] rule = "prefix" -> SearchPrefix(s)
      [] rule = "verb" -> SearchVerb(s)

\* One word of the task name: acronyms are kept, single letters are upper
\* case, other words are capitalized.
CleanWord(word) ==
    IF IsUpperStr(word) /\ Len(word) > 1 THEN word
    ELSE IF Len(word) = 1 THEN <<ToUpper(word[1])>>
    ELSE Capitalize(word)

\* Mutant of Truncate: the name is not cut.
Truncate_none(task) == task

\* task[:60]
Truncate(task) == Slice(task, 1, IF Len(task) < 60 THEN Len(task) ELSE 60)

\* Lines 1030-1042: "Clean up the task name", then the cut.
CleanTask(task) ==
    LET words == Split(ReplaceBySpace(task, {"_", "-"}))
    IN  Truncate(Join([i \in 1 .. Len(words) |-> CleanWord(words[i])]))

\* The group the task is taken from: the description when there is one,
\* otherwise the first group.
Capture(mt) == IF mt.g2 # <<>> THEN mt.g2 ELSE mt.g1

\* Lines 1047-1052: no pattern matched.
Fallback(s) ==
    LET words == Split(s)
    IN  IF Len(words) >= 3
        THEN Title(StripChars(Join(SubSeq(words, 1, 3)),
                              LAMBDA c : c \in {".", ",", "!", "?", ":"}))
        ELSE IF Len(words) >= 1 THEN Capitalize(words[1])
        ELSE <<"G", "e", "n", "e", "r", "a", "l", " ", "W", "o", "r", "k">>

\* The loop over the patterns, from the k-th on.
RECURSIVE FirstMatch(_, _)
FirstMatch(s, k) ==
    IF k > Len(patterns) THEN Fallback(s)
    ELSE LET mt == Search(patterns[k], s)
         IN  IF mt.found /\ Capture(mt) # <<>> THEN CleanTask(Capture(mt))
             ELSE FirstMatch(s, k + 1)

UnknownTask == <<"U", "n", "k", "n", "o", "w", "n", " ", "T", "a", "s", "k">>

\* A Python value: its type and what str() gives for it.
Value(type, text) == [type |-> type, text |-> text]

\* Mutant of extract_task_name: None and False are converted like any value.
extract_task_name_convertall(v) ==
    IF Split(v.text) = <<>> THEN UnknownTask ELSE FirstMatch(v.text, 1)

extract_task_name(v) ==
    IF v.type = "NoneType" \/ (v.type = "bool" /\ v.text = <<"F", "a", "l", "s", "e">>)
    THEN UnknownTask
    ELSE IF Split(v.text) = <<>> THEN UnknownTask
    ELSE FirstMatch(v.text, 1)

\* The commit messages extract_task_name is called with: a head, which one
\* of the first four patterns matches (or none), followed by a body.
MsgHead ==
    \* ""
    [none |-> <<>>,
     \* "PROJ-123: "
     jira |-> <<"P", "R", "O", "J", "-", "1", "2", "3", ":", " ">>,
     \* "closes #42: "
     closes |-> <<"c", "l", "o", "s", "e", "s", " ", "#", "4", "2", ":", " ">>,
     \* "[Bug Fix] "
     tag |-> <<"[", "B", "u", "g", " ", "F", "i", "x", "]", " ">>,
     \* "[FEAT-456]: "
     tagid |-> <<"[", "F", "E", "A", "T", "-", "4", "5", "6", "]", ":", " ">>,
     \* "feat: "
     feat |-> <<"f", "e", "a", "t", ":", " ">>,
     \* "hotfix: "
     hotfix |-> <<"h", "o", "t", "f", "i", "x", ":", " ">>,
     \* "#7 "
     issue |-> <<"#", "7", " ">>]
Heads == {MsgHead[k] : k \in DOMAIN MsgHead}

MsgBody ==
    \* "Add user authentication system"
    [auth |-> <<"A", "d", "d", " ", "u", "s", "e", "r", " ", "a", "u", "t", "h", "e", "n",
          "t", "i", "c", "a", "t", "i", "o", "n", " ", "s", "y", "s", "t", "e", "m">>,
     \* "Implement payment gateway"
     pay |-> <<"I", "m", "p", "l", "e", "m", "e", "n", "t", " ", "p", "a", "y", "m", "e",
          "n", "t", " ", "g", "a", "t", "e", "w", "a", "y">>,
     \* "Resolve utf-8 encoding"
     utf |-> <<"R", "e", "s", "o", "l", "v", "e", " ", "u", "t", "f", "-", "8", " ", "e",
          "n", "c", "o", "d", "i", "n", "g">>,
     \* "random commit message without structure"
     random |-> <<"r", "a", "n", "d", "o", "m", " ", "c", "o", "m", "m", "i", "t", " ", "m",
          "e", "s", "s", "a", "g", "e", " ", "w", "i", "t", "h", "o", "u", "t", " ", "s",
          "t", "r", "u", "c", "t", "u", "r", "e">>,
     \* "update_db API, then x"
     db |-> <<"u", "p", "d", "a", "t", "e", "_", "d", "b", " ", "A", "P", "I", ",", " ", "t",
          "h", "e", "n", " ", "x">>,
     \* "wip"
     wip |-> <<"w", "i", "p">>,
     \* "Refactor the session tracking engine so that every repository has its own lock"
     long |-> <<"R", "e", "f", "a", "c", "t", "o", "r", " ", "t", "h", "e", " ", "s", "e",
          "s", "s", "i", "o", "n", " ", "t", "r", "a", "c", "k", "i", "n", "g", " ", "e",
          "n", "g", "i", "n", "e", " ", "s", "o", " ", "t", "h", "a", "t", " ", "e", "v",
          "e", "r", "y", " ", "r", "e", "p", "o", "s", "i", "t", "o", "r", "y", " ", "h",
          "a", "s", " ", "i", "t", "s", " ", "o", "w", "n", " ", "l", "o", "c", "k">>,
     \* ""
     none |-> <<>>]
Bodies == {MsgBody[k] : k \in DOMAIN MsgBody}

Messages == {Value("str", h \o b) : h \in Heads, b \in Bodies}

\* Values that are no commit message: None, False, True, 0, 123, 1.5,
\* Exception("fix: disk full"), and two blank strings.
NoMessages ==
    {Value("NoneType", <<"N", "o", "n", "e">>),
     Value("bool", <<"F", "a", "l", "s", "e">>),
     Value("bool", <<"T", "r", "u", "e">>),
     Value("int", <<"0">>),
     Value("int", <<"1", "2", "3">>),
     Value("float", <<"1", ".", "5">>),
     Value("Exception", <<"f", "i", "x", ":", " ", "d", "i", "s", "k", " ", "f", "u", "l", "l">>),
     Value("str", <<" ">>),
     Value("str", <<" ", " ", " ">>)}

\* A call of extract_task_name with argument pf.arg.
TaskCall ==
    /\ pf.fn = "extract_task_name"
    /\ ~pf.done
    /\ pf' = [pf EXCEPT !.done = TRUE, !.out = extract_task_name(pf.arg)]
    /\ UNCHANGED <<running, loop, sc, watched, now, head, tracker, threads, closed, pending,
                   burst, commits, events, lastOp, ep, table, reported>>

TaskInit ==
    /\ InitWith({})
    /\ sc = sc0
    /\ pf \in [fn : {"extract_task_name"}, arg : Messages \cup NoMessages, done : {FALSE},
               out : {<<>>}]

TaskSpec == TaskInit /\ [][TaskCall]_vars

\* ------------------------------------------------------ get_git_stats

\* s.split(sep) for a one-character sep
RECURSIVE SplitOn(_, _)
SplitOn(s, sep) ==
    LET i == RunEnd(s, 1, LAMBDA c : c # sep)
    IN  IF i > Len(s) THEN <<s>>
        ELSE <<Slice(s, 1, i - 1)>> \o SplitOn(Slice(s, i + 1, Len(s)), sep)

\* sep.join(strs) for a one-character sep
RECURSIVE JoinWith(_, _)
JoinWith(strs, sep) ==
    IF strs = <<>> THEN <<>>
    ELSE IF Len(strs) = 1 THEN strs[1]
    ELSE strs[1] \o <<sep>> \o JoinWith(Tail(strs), sep)

RECURSIVE Sum(_)
Sum(ns) == IF ns = <<>> THEN 0 ELSE Head(ns) + Sum(Tail(ns))

\* The number a string of decimal digits denotes.
RECURSIVE Decimal(_)
Decimal(tok) ==
    IF tok = <<>> THEN 0
    ELSE 10 * Decimal(Slice(tok, 1, Len(tok) - 1))
         + (CHOOSE d \in 0 .. 9 : Digits[d + 1] = tok[Len(tok)])

\* int(part.split()[0]) where it succeeds; where it raises ValueError (the
\* first word is no number) or IndexError (there is no word) the handler
\* adds nothing, which is 0 here. The words of the outputs below carry no sign.
FirstInt(part) ==
    LET ws == Split(part)
    IN  IF ws # <<>> /\ \A i \in 1 .. Len(ws[1]) : IsDigit(ws[1][i]) THEN Decimal(ws[1]) ELSE 0

\* The literals of the tests on a line.
Word ==
    \* "file changed"
    [file_changed |-> <<"f", "i", "l", "e", " ", "c", "h", "a", "n", "g", "e", "d">>,
     \* "files changed"
     files_changed |-> <<"f", "i", "l", "e", "s", " ", "c", "h", "a", "n", "g", "e", "d">>,
     \* "file"
     file |-> <<"f", "i", "l", "e">>,
     \* "insertion"
     insertion |-> <<"i", "n", "s", "e", "r", "t", "i", "o", "n">>,
     \* "deletion"
     deletion |-> <<"d", "e", "l", "e", "t", "i", "o", "n">>,
     \* " | "
     bar |-> <<" ", "|", " ">>,
     \* "++"
     pp |-> <<"+", "+">>,
     \* "--"
     mm |-> <<"-", "-">>,
     \* "+-"
     pm |-> <<"+", "-">>]

\* "file changed" in line or "files changed" in line
IsSummaryLine(line) == Contains(line, Word.file_changed) \/ Contains(line, Word.files_changed)

\* " | " in line and ("++" in line or "--" in line or "+-" in line)
IsFileLine(line) ==
    /\ Contains(line, Word.bar)
    /\ Contains(line, Word.pp) \/ Contains(line, Word.mm) \/ Contains(line, Word.pm)

\* What one line taken as a summary adds to (lines_added, lines_deleted,
\* files_changed).
SummaryAdds(line) ==
    LET parts == SplitOn(line, ",")
        ins(k) == Contains(parts[k], Word.insertion)
        del(k) == ~ins(k) /\ Contains(parts[k], Word.deletion)
    IN  <<Sum([k \in 1 .. Len(parts) |-> IF ins(k) THEN FirstInt(parts[k]) ELSE 0]),
          Sum([k \in 1 .. Len(parts) |-> IF del(k) THEN FirstInt(parts[k]) ELSE 0]),
          IF Contains(parts[1], Word.file) THEN FirstInt(parts[1]) ELSE 0>>

\* The body of the loop over the two commands, for one result of
\* subprocess.run: what it adds to the three totals.
DiffAdds(result) ==
    LET text == StripChars(result.stdout, IsSpace)
        lines == SplitOn(text, "\n")
        of(k) == IF IsSummaryLine(lines[k]) THEN SummaryAdds(lines[k]) ELSE <<0, 0, 0>>
        summary_found == \E k \in 1 .. Len(lines) : IsSummaryLine(lines[k])
    IN  IF result.returncode # 0 \/ text = <<>> THEN <<0, 0, 0>>
        ELSE <<Sum([k \in 1 .. Len(lines) |-> of(k)[1]]),
               Sum([k \in 1 .. Len(lines) |-> of(k)[2]]),
               Sum([k \in 1 .. Len(lines) |-> of(k)[3]])
               + (IF summary_found THEN 0
                  ELSE Cardinality({k \in 1 .. Len(lines) : IsFileLine(lines[k])}))>>

\* get_git_stats for the results of the two commands; raised is the number
\* of the command whose subprocess.run raises (the executable is missing,
\* the process table is full), 0 if none does.
get_git_stats(unstaged, staged, raised) ==
    IF raised # 0 THEN <<0, 0, 0>>
    ELSE [k \in 1 .. 3 |-> DiffAdds(unstaged)[k] + DiffAdds(staged)[k]]

\* The lines `git diff --stat` prints for one file; FileLine.named is the line of a
\* file whose name is "3 files changed.txt".
FileLine ==
    \* " test.py | 5 +++++"
    [test |-> <<" ", "t", "e", "s", "t", ".", "p", "y", " ", "|", " ", "5", " ", "+", "+",
          "+", "+", "+">>,
     \* " file2.py | 5 ++---"
     mixed |-> <<" ", "f", "i", "l", "e", "2", ".", "p", "y", " ", "|", " ", "5", " ", "+",
          "+", "-", "-", "-">>,
     \* " a.py | 1 +"
     one |-> <<" ", "a", ".", "p", "y", " ", "|", " ", "1", " ", "+">>,
     \* " 3 files changed.txt | 2 ++"
     named |-> <<" ", "3", " ", "f", "i", "l", "e", "s", " ", "c", "h", "a", "n", "g", "e",
          "d", ".", "t", "x", "t", " ", "|", " ", "2", " ", "+", "+">>]
FileLines == {FileLine[k] : k \in DOMAIN FileLine}

\* The summary lines of `git diff --stat`, with the numbers they state.
SummaryLine ==
    \* " 1 file changed, 5 insertions(+)"
    [ins |-> [text |-> <<" ", "1", " ", "f", "i", "l", "e", " ", "c", "h", "a", "n", "g",
                "e", "d", ",", " ", "5", " ", "i", "n", "s", "e", "r", "t", "i", "o", "n",
                "s", "(", "+", ")">>,
               n |-> 1, a |-> 5, d |-> 0],
     \* " 1 file changed, 3 deletions(-)"
     del |-> [text |-> <<" ", "1", " ", "f", "i", "l", "e", " ", "c", "h", "a", "n", "g",
                "e", "d", ",", " ", "3", " ", "d", "e", "l", "e", "t", "i", "o", "n", "s",
                "(", "-", ")">>,
               n |-> 1, a |-> 0, d |-> 3],
     \* " 2 files changed, 12 insertions(+), 3 deletions(-)"
     both |-> [text |-> <<" ", "2", " ", "f", "i", "l", "e", "s", " ", "c", "h", "a", "n",
                "g", "e", "d", ",", " ", "1", "2", " ", "i", "n", "s", "e", "r", "t", "i",
                "o", "n", "s", "(", "+", ")", ",", " ", "3", " ", "d", "e", "l", "e", "t",
                "i", "o", "n", "s", "(", "-", ")">>,
               n |-> 2, a |-> 12, d |-> 3],
     \* " 1 file changed"
     mode |-> [text |-> <<" ", "1", " ", "f", "i", "l", "e", " ", "c", "h", "a", "n", "g",
                "e", "d">>,
               n |-> 1, a |-> 0, d |-> 0]]
NoSummary == [text |-> <<>>, n |-> 0, a |-> 0, d |-> 0]
Summaries == {SummaryLine[k] : k \in DOMAIN SummaryLine}

\* The outputs of `git diff --stat`: at most MaxFileLines lines for files,
\* then a summary line or, for an output that was cut or is in another
\* language, none; and the failed command, which prints nothing.
MaxFileLines == 2
FileSeqs(n) == UNION {[1 .. k -> FileLines] : k \in 0 .. n}
Outputs(n) ==
    {[returncode |-> 0, files |-> fs, summary |-> su] :
        fs \in FileSeqs(n), su \in Summaries \cup {NoSummary}}
    \cup {[returncode |-> 128, files |-> <<>>, summary |-> NoSummary]}

\* result.stdout of an output: its lines, each ended by a newline.
StdOut(o) ==
    LET ls == o.files \o (IF o.summary = NoSummary THEN <<>> ELSE <<o.summary.text>>)
    IN  IF ls = <<>> THEN <<>> ELSE JoinWith(ls, "\n") \o <<"\n">>

Result(o) == [returncode |-> o.returncode, stdout |-> StdOut(o)]

\* A call of get_git_stats; pf.arg holds what the two commands print.
DiffCall ==
    /\ pf.fn = "get_git_stats"
    /\ ~pf.done
    /\ pf' = [pf EXCEPT !.done = TRUE,
                        !.out = get_git_stats(Result(pf.arg.unstaged), Result(pf.arg.staged),
                                              pf.arg.raised)]
    /\ UNCHANGED <<running, loop, sc, watched, now, head, tracker, threads, closed, pending,
                   burst, commits, events, lastOp, ep, table, reported>>

DiffInit ==
    /\ InitWith({})
    /\ sc = sc0
    /\ pf \in [fn : {"get_git_stats"},
               arg : [unstaged : Outputs(MaxFileLines), staged : Outputs(1), raised : 0 .. 2],
               done : {FALSE}, out : {<<>>}]

DiffSpec == DiffInit /\ [][DiffCall]_vars


\* ------------------------------------------------------ the scorer alone

\* A call of calculate_productivity_score with arguments sc.args.
ScoreCall ==
    /\ ~sc.done
    /\ sc' = [sc EXCEPT !.done = TRUE,
                        !.out = calculate_productivity_score(sc.args[1], sc.args[2], sc.args[3])]
    /\ UNCHANGED <<running, loop, pf, watched, now, head, tracker, threads, closed, pending, burst, commits,
                   events, lastOp, ep, table, reported>>

ScoreInit ==
    /\ InitWith({})
    /\ sc \in [args : Durations \X FileCounts \X LineCounts, done : {FALSE}, out : {<<0, 1>>}]
    /\ pf = pf0

ScoreNext == ScoreCall

ScoreSpec == ScoreInit /\ [][ScoreNext]_vars

\* ------------------------------------------------------------ properties

\* d and e agree on key r: both lack it, or both map it to the same value.
SameEntry(d, e, r) ==
    /\ (r \in DOMAIN d) <=> (r \in DOMAIN e)
    /\ r \in DOMAIN d => d[r] = e[r]

IsIdleSweepStep == mpc = "sleep" /\ mpc' = "swept"
IsCommitSweepStep == mpc = "swept" /\ mpc' = "sleep"

\* What the claims compare of repository r: span, accumulated time, files.
View(S, r) == <<SessionOf(S.as, r), Get(S.acc, r, 0), Get(S.fc, r, {})>>

\* The two serial executions of the overlapping on_modified and tick, from
\* the state in which the first of them began, each with the inputs it read.
EventThenTick ==
    check_commits(check_idle_sessions(on_modified(ep.base, ep.wr, ep.wp, ep.wn), ep.mn),
                  ep.hd, ep.g)
TickThenEvent ==
    on_modified(check_commits(check_idle_sessions(ep.base, ep.mn), ep.hd, ep.g),
                ep.wr, ep.wp, ep.wn)

\* The paths whose number entered the last record of r.
LastCounted(r) == IF records[r] = <<>> THEN {} ELSE records[r][Len(records[r])].paths

\* C1: no accepted path is lost: every path that on_modified added since the
\* last count is in the set counted for the record of the flush, or is still
\* in file_changes of its repository.
C1_NoPathLost ==
    \A r \in Repos : pending[r] \subseteq (Get(file_changes, r, {}) \cup LastCounted(r))

\* C2: when one on_modified and one tick have overlapped and both are done,
\* the repository's span, accumulated time and changed files are those of
\* one of the two serial orders.
C2_Serializable ==
    (Quiescent /\ Overlapped) =>
        View(Tracker, ep.wr) \in {View(EventThenTick, ep.wr), View(TickThenEvent, ep.wr)}

\* C3: a repository never has more records than its HEAD has changed, in any
\* interleaving of the watcher and the monitor thread.
C3_OneRecordPerCommit ==
    \A r \in Repos : Len(records[r]) <= commits[r]

C3_Witness ==
    \E r \in Repos : /\ Len(records[r]) = 1
                     /\ commits[r] = 1
                     /\ mpc = "sleep"
                     /\ wpc = "touch"
                     /\ last_commits[r] = head[r]

\* C4: after a run of on_modified calls on one repository that starts from an
\* idle (or untracked) repository and is not interrupted by a sweep, the
\* repository is active with start = the first call's time and last = the
\* last call's time.
C4_BurstSpan ==
    \A r \in Repos : burst[r][1] # None => SessionOf(active_sessions, r) = burst[r]

C4_Witness ==
    \E r \in Repos : burst[r][1] # None /\ burst[r][2] > burst[r][1]

\* C5: the idle sweep folds the span (a, b) of every active repository, a = 0
\* included, iff now - b > IDLE_THRESHOLD; a fold adds exactly b - a to the
\* accumulated time and clears the span; otherwise the repository is untouched.
C5_IdleFoldIff ==
    [][IsIdleSweepStep =>
        \A r \in DOMAIN active_sessions :
            LET a == active_sessions[r][1]
                b == active_sessions[r][2]
            IN  a # None =>
                  IF now - b > IDLE_THRESHOLD
                  THEN /\ Get(accumulated_time', r, 0) = Get(accumulated_time, r, 0) + (b - a)
                       /\ active_sessions'[r] = <<None, None>>
                  ELSE /\ active_sessions'[r] = active_sessions[r]
                       /\ SameEntry(accumulated_time, accumulated_time', r)]_vars

\* C6: the step that records a repository's commit hash for the first time
\* records the polled hash, emits no record and leaves the repository's span,
\* accumulated time and changed files as they were.
C6_FirstPollOnlyRecords ==
    [][\A r \in Repos :
          (r \notin DOMAIN last_commits /\ r \in DOMAIN last_commits') =>
              /\ last_commits'[r] = head[r]
              /\ records'[r] = records[r]
              /\ SameEntry(active_sessions, active_sessions', r)
              /\ SameEntry(accumulated_time, accumulated_time', r)
              /\ SameEntry(file_changes, file_changes', r)]_vars

C6_Witness ==
    \E r \in Repos :
        /\ r \in DOMAIN last_commits
        /\ commits[r] = 0
        /\ records[r] = <<>>
        /\ SessionOf(active_sessions, r)[1] # None
        /\ SessionOf(active_sessions, r)[2] > SessionOf(active_sessions, r)[1]

\* C7: a commit sweep that polls a hash different from the recorded one first
\* folds any active span (start present) into the accumulated time and clears
\* it, then emits exactly one record of that duration iff the duration is
\* positive, resetting accumulated time and changed files.
C7_CommitFlush ==
    [][IsCommitSweepStep =>
        \A r \in AllRepos(Tracker) \cap DOMAIN last_commits :
            (head[r] # NoHead /\ head[r] # last_commits[r]) =>
                LET sess  == SessionOf(active_sessions, r)
                    total == Get(accumulated_time, r, 0)
                             + (IF sess[1] # None THEN sess[2] - sess[1] ELSE 0)
                IN  /\ SessionOf(active_sessions', r)[1] = None
                    /\ IF total > 0
                       THEN /\ Len(records'[r]) = Len(records[r]) + 1
                            /\ records'[r][Len(records'[r])].duration = total
                            /\ accumulated_time'[r] = 0
                            /\ file_changes'[r] = {}
                       ELSE records'[r] = records[r]]_vars

\* C8: a tick that immediately follows a tick (nothing else happened since the
\* first one began) changes neither the tracker's dictionaries nor the sink.
C8_TickIdempotent ==
    [][((lastOp \in {"tick", "tick2"} /\ lastOp' = "idle2")
          \/ (lastOp = "idle2" /\ lastOp' = "tick2")) => UNCHANGED tracker]_vars

C8_Witness ==
    /\ lastOp = "tick2"
    /\ \E r \in Repos : /\ Len(records[r]) = 1
                        /\ Get(accumulated_time, r, 1) = 0
                        /\ records[r][1].commit_hash = last_commits[r]

C10_AccumulatedMonotone ==
    /\ [](\A r \in DOMAIN accumulated_time : accumulated_time[r] >= 0)
    /\ [][\A r \in Repos :
            LET old == Get(accumulated_time, r, 0)
                new == Get(accumulated_time', r, 0)
                emitted == Len(records'[r]) - Len(records[r])
            IN  /\ emitted \in {0, 1}
                /\ emitted = 1 => new = 0
                /\ new < old => emitted = 1]_vars

C10_Witness ==
    \E r \in Repos : /\ records[r] # <<>>
                     /\ r \in DOMAIN accumulated_time
                     /\ accumulated_time[r] = 0
                     /\ closed[r] = 0

\* C11: a commit sweep leaves, for every repository whose hash it polled
\* successfully, the polled hash in last_commits, whether or not it saved a
\* record; a record is saved only for a hash that differs from the recorded
\* one, so a commit detected with nothing accumulated yields no record later.
C11_LastCommitIsPolled ==
    [][IsCommitSweepStep =>
        \A r \in AllRepos(Tracker) :
            head[r] # NoHead =>
                /\ r \in DOMAIN last_commits'
                /\ last_commits'[r] = head[r]
                /\ records'[r] # records[r] =>
                      /\ r \in DOMAIN last_commits
                      /\ last_commits[r] # head[r]
                      /\ records'[r][Len(records'[r])].commit_hash = head[r]]_vars

\* A commit was detected with nothing accumulated (the span of length 0 was
\* cleared before any idle sweep could fold it) and two more ticks have run.
C11_Witness ==
    \E r \in Repos : /\ now <= 10
                     /\ SessionOf(active_sessions, r) = <<None, None>>
                     /\ Get(accumulated_time, r, 1) = 0
                     /\ records[r] = <<>>
                     /\ commits[r] = 1
                     /\ last_commits[r] = head[r]
                     /\ lastOp = "tick2"

\* C14: the files_changed of every saved record is the larger of the number
\* of paths in file_changes of the repository when the flush began and the
\* count get_git_stats returned.
C14_FilesChangedIsMax ==
    [][\A r \in Repos :
          Len(records'[r]) > Len(records[r]) =>
              LET rec      == records'[r][Len(records'[r])]
                  observed == Cardinality(Get(file_changes, r, {}))
                  git      == rec.git_files_changed
              IN  /\ rec.files_changed >= observed
                  /\ rec.files_changed >= git
                  /\ rec.files_changed \in {observed, git}]_vars

\* Both outcomes have happened: git's count won for one record, the
\* watcher's for another.
C14_Witness ==
    \E r \in Repos :
        /\ records[r] # <<>>
        /\ records[r][1].files_changed = 3
        /\ Cardinality(records[r][1].paths) = 2

C14_WitnessObserved ==
    \E r \in Repos :
        /\ records[r] # <<>>
        /\ records[r][1].git_files_changed = 0
        /\ records[r][1].files_changed = 2

\* The score the claims state, in units of 1/90 point: 40 points per 3600
\* seconds is 1 unit per second, 5 points per file are 450 units, 1 point per
\* 10 lines is 9 units per line; the terms stop growing at 3600 seconds,
\* 6 files and 300 lines.
Reference90(d, f, l) ==
    IF d = 0 THEN 0
    ELSE (IF d >= 3600 THEN 3600 ELSE d)
         + (IF f >= 6 THEN 2700 ELSE 450 * f)
         + (IF l >= 300 THEN 2700 ELSE 9 * l)

\* C12: the scorer returns the reference value for every argument triple:
\* 0 for duration 0, otherwise the sum of the three capped terms; for
\* (120, 3, 40) it returns 120*40/3600 + 15 + 4 = 61/3.
C12_ScoreIsReference ==
    sc.done =>
        /\ REq(sc.out, Frac(Reference90(sc.args[1], sc.args[2], sc.args[3]), 90))
        /\ sc.args = <<120, 3, 40>> => REq(sc.out, Frac(61, 3))
        /\ sc.args[1] = 0 => sc.out[1] = 0

C12_Witness == sc.done /\ sc.args = <<120, 3, 40>> /\ REq(sc.out, Frac(61, 3))

\* C13: the score is at least 0 and at most 100 for every duration, file
\* count and line count, the positive durations of a flush included.
C13_ScoreInRange ==
    sc.done => RLeq(Frac(0, 1), sc.out) /\ RLeq(sc.out, Frac(100, 1))

\* A flush-like call (duration > 0) in which all three terms are capped.
C13_Witness ==
    /\ sc.done
    /\ sc.args[1] > 3600 /\ sc.args[2] > 6 /\ sc.args[3] > 300
    /\ REq(sc.out, Frac(100, 1))

\* C15: on_modified for a path that resolves to no repository changes no
\* dictionary of the tracker: no entry is created, none is modified.
C15_DropIsNoOp ==
    [][(lastOp' = "drop" /\ events' = events + 1) => UNCHANGED tracker]_vars

\* An event was dropped while a repository was being tracked.
C15_Witness ==
    /\ lastOp = "drop"
    /\ \E r \in Repos : /\ SessionOf(active_sessions, r)[1] # None
                        /\ r \in DOMAIN last_commits

\* The commit sweep of the tick ends, by returning or by an exception.
SweepEnds == mpc = "fpoll" /\ mpc' \in {"sleep", "status", "dead"}

\* C16: an iteration of the commit sweep whose poll fails leaves the
\* repository's entries and records as they were, and when the sweep of a
\* tick ends, every repository of all_repos whose poll did not fail has been
\* polled in it.
C16_PollFailureIsolated ==
    [][/\ (mpc = "fpoll" /\ m' # m /\ m' # m0 /\ mpc' # "hung" /\ m'.repo \in m'.failed) =>
            /\ SameEntry(active_sessions, active_sessions', m'.repo)
            /\ SameEntry(accumulated_time, accumulated_time', m'.repo)
            /\ SameEntry(last_commits, last_commits', m'.repo)
            /\ SameEntry(file_changes, file_changes', m'.repo)
            /\ records' = records
       /\ (SweepEnds /\ (IF m' = m0 THEN m ELSE m').failed # {}) =>
            LET f == IF m' = m0 THEN m ELSE m'
            IN  f.all \subseteq (f.polled \cup f.failed)]_vars

\* C17: an iteration whose flush finds the sink failing (save_session or the
\* Markdown write raises) still resets the accumulated time and the changed
\* files, leaves the span cleared and records the new hash; the failure is
\* reported, the monitor thread goes on, and no record but this one is lost.
C17_SinkFailureCompletesFlush ==
    [][(mpc = "fpoll" /\ mpc' = "fpoll" /\ m' # m /\ m'.sink \in {"db", "markdown"}) =>
          LET r == m'.repo
          IN  /\ accumulated_time'[r] = 0
              /\ file_changes'[r] = {}
              /\ SessionOf(active_sessions', r)[1] = None
              /\ last_commits'[r] = head[r]
              /\ m'.sink \in reported'
              /\ \A x \in Repos \ {r} : records'[x] = records[x]
              /\ IF m'.sink = "db" THEN records'[r] = records[r]
                 ELSE Len(records'[r]) = Len(records[r]) + 1]_vars

\* A flush lost its record to a failing save_session and completed.
C17_Witness ==
    \E r \in Repos : /\ "db" \in reported
                     /\ records[r] = <<>>
                     /\ commits[r] = 1
                     /\ Get(accumulated_time, r, 1) = 0
                     /\ Get(file_changes, r, Paths) = {}
                     /\ last_commits[r] = head[r]
                     /\ mpc = "sleep"

\* C18: after a failure of a poll, of the sink or of the status display the
\* monitor loop comes back to its sleep, from which the next tick starts
\* (unless a git call hangs, which is C19's case).
C18_TickLoopSurvives ==
    [](reported # {} => <>(mpc \in {"sleep", "hung"}))

\* C19: when a git call of the commit sweep hangs on one repository, every
\* other repository of the sweep is still polled later.
C19_HangDoesNotStall ==
    \A r \in Repos :
        []((mpc = "hung" /\ r \in m.all /\ r # m.repo)
              => <>(mpc = "fpoll" /\ m.repo = r))

\* What a table tells of repository r: whether it is shown active, with how
\* many files, and its accumulated time, with how many files.
Shown(rows, r) ==
    {<<x[2], IF x[2] = "Active" THEN 0 ELSE x[3], x[4]>> : x \in {y \in rows : y[1] = r}}

\* C20: _show_live_status never fails, and when one display and one
\* on_modified have overlapped and both are done, what the table tells of
\* each repository is what it would tell of the state before the on_modified
\* or of the state after it.
C20_StatusConsistent ==
    /\ "status" \notin reported
    /\ (Quiescent /\ Overlapped) =>
          \A r \in Repos :
              Shown(table, r) \in
                  {Shown(show_live_status(ep.base, now), r),
                   Shown(show_live_status(on_modified(ep.base, ep.wr, ep.wp, ep.wn), now), r)}

\* The display states the snapshot is to report: a repository whose span is
\* present is Active with the elapsed time, any other one whose accumulated
\* time is positive is Accumulated with that time.
DisplayStates(S, n) ==
    {<<r, "Active", n - S.as[r][1]>> : r \in {x \in DOMAIN S.as : S.as[x][1] # None}}
    \cup {<<r, "Accumulated", S.acc[r]>> :
            r \in {x \in DOMAIN S.acc : S.acc[x] > 0 /\ SessionOf(S.as, x)[1] = None}}

\* A display that no on_modified overlapped ends, at the instant it began.
DisplayEndsAlone == mpc \in {"count", "rows"} /\ mpc' = "sleep" /\ ep.nw = 0 /\ ep.mn = now

\* C21: the table of a display shows every tracked repository in exactly one
\* state: Active with now - start when its span is present, otherwise
\* Accumulated with its seconds when they are positive, otherwise not at all;
\* no repository has both an Active and an Accumulated row.
C21_OneDisplayState ==
    [][DisplayEndsAlone =>
          {<<x[1], x[2], x[3]>> : x \in table'} = DisplayStates(Tracker, now)]_vars

\* The last clause of C21 alone, for spans that begin after the epoch.
C21_NotBoth ==
    \A r \in Repos : ~(\E x, y \in table : /\ x[1] = r /\ y[1] = r
                                          /\ x[2] = "Active" /\ y[2] = "Accumulated")

\* C22: at most one tick is in progress at any time: a tick begins only from
\* the sleep of the loop, and an interval that elapses while a tick runs
\* neither starts a tick nor leaves one to be run later.
C22_OneTickAtATime ==
    /\ [](loop.inflight <= 1)
    /\ [](loop.inflight = 1 <=> mpc = "tick")
    /\ [][(mpc = "tick" /\ now' > now) => (mpc' = "tick" /\ loop' = loop)]_vars
    /\ [][(mpc = "tick" /\ mpc' = "sleep") => loop'.inflight = 0]_vars

\* Time passed between the two sweeps of a tick in progress, which flushed a
\* session; an earlier tick has ended.
C22_Witness ==
    /\ mpc = "tick"
    /\ loop.inflight = 1
    /\ \E r \in Repos : r \in DOMAIN last_commits /\ commits[r] = 1
    /\ Len(loop.log) = 2
    /\ loop.log[2].at > loop.log[1].at
    /\ \E r \in Repos : records[r] # <<>>

\* C26: in every tick the idle sweep has run, once, before the commit sweep
\* polls any repository, and no repository polled has an idle fold due at the
\* instant of that idle sweep.
C26_IdleBeforeCommits ==
    [][(Len(loop'.log) = Len(loop.log) + 1 /\ loop'.log[Len(loop'.log)].op = "commits") =>
          /\ Len(loop.log) = 1
          /\ loop.log[1].op = "idle"
          /\ \A r \in DOMAIN active_sessions :
                ~IsIdle(active_sessions[r][1], active_sessions[r][2], loop.log[1].at)]_vars

\* A span was folded by the idle sweep of a tick and flushed by the commit
\* sweep of the same tick.
C26_Witness ==
    /\ Len(loop.log) = 2
    /\ loop.log[1].at = 400
    /\ loop.log[2].at = 400
    /\ \E r \in Repos : /\ Len(records[r]) = 1
                        /\ records[r][1].duration = 5
                        /\ closed[r] = 0

\* The monitor thread has left its loop or ended with the process.
Terminated == mpc \in {"exited", "killed"}

\* C30: once stop_monitoring has set running to false the loop begins at most
\* one further tick, leaves at the end of the tick it is in and so
\* terminates, and from that moment on no record is emitted: what was
\* accumulated or active when stopping is never flushed.
C30_StopEndsLoop ==
    /\ [](loop.afterStop <= 1)
    /\ [](~running => <>Terminated)
    /\ [][(~running /\ mpc = "tick" /\ mpc' # "tick") => Terminated']_vars
    /\ [][~running => records' = records]_vars

\* C30 as amended: once running is false the loop begins at most one further
\* tick, leaves at the end of the tick it is in and so terminates;
\* stop_monitoring itself changes no dictionary and emits nothing, and
\* nothing changes after the termination; a record is emitted after the stop
\* only by the commit sweep of a tick, for a commit that sweep detects.
C30_StopItselfFlushesNothing ==
    /\ [](loop.afterStop <= 1)
    /\ [](~running => <>Terminated)
    /\ [][(~running /\ mpc = "tick" /\ mpc' # "tick") => Terminated']_vars
    /\ [][(running /\ ~running') => UNCHANGED tracker]_vars
    /\ [][Terminated => UNCHANGED tracker]_vars
    /\ [][(~running /\ records' # records) =>
            /\ mpc = "tick"
            /\ Len(loop'.log) = 2
            /\ loop'.log[2].op = "commits"
            /\ \E r \in Repos : /\ Len(records'[r]) = Len(records[r]) + 1
                                /\ records'[r][Len(records'[r])].commit_hash = head[r]
                                /\ last_commits[r] # head[r]]_vars

\* The loop was stopped in its sleep, ran one further tick and left; the
\* accumulated time of the repository was not flushed.
C30_Witness ==
    /\ ~running
    /\ mpc = "exited"
    /\ loop.afterStop = 1
    /\ \E r \in Repos : /\ Get(accumulated_time, r, 0) > 0
                        /\ records[r] = <<>>

\* The order of the rules as C23 states it: issue-tracker ID, `#` issue
\* reference, bracketed tag, conventional-commit prefix, leading verb.
RuleOrder == <<"jira", "issue", "bracket", "prefix", "verb">>

\* The rules of RuleOrder that match the str s.
Matching(s) == {k \in 1 .. Len(RuleOrder) : Search(RuleOrder[k], s).found}

\* C23: for a message that some rule matches, extract_task_name returns the
\* cleaned capture of the first rule of RuleOrder that matches, whatever
\* later rules match; the name has no underscore or hyphen, none of its words
\* begins with a lower-case letter, and it is at most 60 characters long;
\* "feat: Add user authentication system" gives "Add User Authentication
\* System" and "PROJ-123: Implement payment gateway" gives "Implement
\* Payment Gateway".
C23_FirstRuleWins ==
    (pf.done /\ pf.arg \in Messages) =>
        LET s == pf.arg.text
        IN  /\ Matching(s) # {} =>
                 LET mt == Search(RuleOrder[Least(Matching(s))], s)
                 IN  /\ pf.out = CleanTask(Capture(mt))
                     /\ Len(pf.out) <= 60
                     /\ \A i \in 1 .. Len(pf.out) : pf.out[i] \notin {"_", "-"}
                     /\ \A i \in 1 .. Len(pf.out) :
                           (i = 1 \/ pf.out[i - 1] = " ") => ~IsLower(pf.out[i])
            /\ s = MsgHead.feat \o MsgBody.auth =>
                 pf.out = <<"A", "d", "d", " ", "U", "s", "e", "r", " ", "A", "u", "t", "h",
                            "e", "n", "t", "i", "c", "a", "t", "i", "o", "n", " ", "S", "y",
                            "s", "t", "e", "m">>
            /\ s = MsgHead.jira \o MsgBody.pay =>
                 pf.out = <<"I", "m", "p", "l", "e", "m", "e", "n", "t", " ", "P", "a", "y",
                            "m", "e", "n", "t", " ", "G", "a", "t", "e", "w", "a", "y">>

\* "feat: Resolve utf-8 encoding": the prefix rule matches, and so does the
\* issue-tracker rule, on "utf-8"; the name is "Utf 8".
C23_Witness ==
    /\ pf.done
    /\ pf.arg = Value("str", MsgHead.feat \o MsgBody.utf)
    /\ Matching(pf.arg.text) = {1, 4}
    /\ pf.out = <<"U", "t", "f", " ", "8">>

\* A name was cut: "Refactor the session tracking engine ..." has 80 characters.
C23_WitnessCut ==
    /\ pf.done
    /\ pf.arg = Value("str", MsgBody.long)
    /\ Len(pf.out) = 60

\* The values C24 is about: an empty or blank message, or no str at all.
NoMessage(v) == v.type # "str" \/ Split(v.text) = <<>>

\* C24: extract_task_name returns "Unknown Task" for every empty or blank
\* message and for every value that is not a str.
C24_UnknownForNoMessage ==
    (pf.done /\ NoMessage(pf.arg)) => pf.out = UnknownTask

\* C24 as amended: "Unknown Task" is returned for None, for False and for
\* every value whose str() is empty or blank; any other value that is not a
\* str is named from its str(): 0 gives "0", 123 gives "123", 1.5 gives
\* "1.5", True gives "True", Exception("fix: disk full") gives "Disk Full".
C24_UnknownForNoneFalseBlank ==
    pf.done =>
        /\ (\/ pf.arg.type = "NoneType"
            \/ pf.arg = Value("bool", <<"F", "a", "l", "s", "e">>)
            \/ Split(pf.arg.text) = <<>>) => pf.out = UnknownTask
        /\ (pf.arg.type \in {"int", "float"} \/ pf.arg = Value("bool", <<"T", "r", "u", "e">>))
              => pf.out = pf.arg.text
        /\ pf.arg.type = "Exception" =>
              pf.out = <<"D", "i", "s", "k", " ", "F", "u", "l", "l">>

\* None was passed and the sentinel returned.
C24_Witness ==
    /\ pf.done
    /\ pf.arg.type = "NoneType"
    /\ pf.out = UnknownTask

\* What C25 says one output parses to, as (added, deleted, files): the
\* numbers of its summary line if it has one; otherwise no lines and at most
\* one file for each of its per-file lines.
Claimed(o) ==
    IF o.summary # NoSummary THEN {<<o.summary.a, o.summary.d, o.summary.n>>}
    ELSE {<<0, 0, k>> : k \in 0 .. Len(o.files)}

\* C25: get_git_stats returns the sum, over the unstaged and the staged
\* diff, of what the output parses to: files = N, added = A, deleted = D of
\* its summary line whatever its per-file lines are; per-file lines counted
\* only when there is no summary line; (0, 0, 0) for an empty output.
C25_SummaryAuthoritative ==
    (pf.fn = "get_git_stats" /\ pf.done /\ pf.arg.raised = 0) =>
        \E x \in Claimed(pf.arg.unstaged), y \in Claimed(pf.arg.staged) :
            pf.out = [k \in 1 .. 3 |-> x[k] + y[k]]

\* C25 for outputs in which no file is named like a summary line.
C25_OrdinaryNames ==
    (/\ pf.fn = "get_git_stats" /\ pf.done /\ pf.arg.raised = 0
     /\ \A o \in {pf.arg.unstaged, pf.arg.staged} :
           \A k \in 1 .. Len(o.files) : ~IsSummaryLine(o.files[k])) =>
        \E x \in Claimed(pf.arg.unstaged), y \in Claimed(pf.arg.staged) :
            pf.out = [k \in 1 .. 3 |-> x[k] + y[k]]

\* C28: in every state and for every tracked repository the start of the
\* active span is present iff its last activity is, and then start <= last;
\* every span that a step folds (clears) adds its length last - start >= 0
\* to the accumulated time, or to the duration of the record the step emits.
C28_SpanOrdered ==
    /\ [](\A r \in DOMAIN active_sessions :
            LET s == active_sessions[r]
            IN  /\ s[1] = None <=> s[2] = None
                /\ s[1] # None => s[1] <= s[2])
    /\ [][\A r \in DOMAIN active_sessions :
            LET s == active_sessions[r]
                old == Get(accumulated_time, r, 0)
            IN  (s[1] # None /\ active_sessions'[r][1] = None) =>
                    /\ s[2] - s[1] >= 0
                    /\ IF Len(records'[r]) > Len(records[r])
                       THEN records'[r][Len(records'[r])].duration = old + (s[2] - s[1])
                       ELSE accumulated_time'[r] = old + (s[2] - s[1])]_vars

\* A span from 5 to 10 was folded at 400: 5 s are accumulated, no span is
\* active, nothing has been emitted.
C28_Witness ==
    \E r \in DOMAIN active_sessions :
        /\ active_sessions[r] = <<None, None>>
        /\ Get(accumulated_time, r, 0) = 5
        /\ records[r] = <<>>
        /\ Get(file_changes, r, {}) = Paths
        /\ now = 400

\* C29: the changed files of a repository lose a path only in a step that
\* emits a record for it; a commit sweep that detects a commit while nothing
\* is accumulated after folding emits no record and leaves the changed files
\* as they are; and every record counts all the paths accepted since the
\* record before it, those from before such a commit included.
C29_FilesClearedOnlyByRecord ==
    [][\A r \in Repos :
          LET fc      == Get(file_changes, r, {})
              sess    == SessionOf(active_sessions, r)
              total   == Get(accumulated_time, r, 0)
                         + (IF sess[1] # None THEN sess[2] - sess[1] ELSE 0)
              emitted == Len(records'[r]) > Len(records[r])
              rec     == records'[r][Len(records'[r])]
          IN  /\ ~(fc \subseteq Get(file_changes', r, {})) => emitted
              /\ (/\ IsCommitSweepStep
                  /\ r \in DOMAIN last_commits
                  /\ head[r] \notin {NoHead, last_commits[r]}
                  /\ total = 0) =>
                     /\ ~emitted
                     /\ Get(file_changes', r, {}) = fc
              /\ emitted => /\ rec.paths = pending[r]
                            /\ rec.files_changed >= Cardinality(pending[r])
                            /\ Get(file_changes', r, {}) = {}]_vars

\* A first commit was detected after one change event (a span of length 0)
\* and gave no record; the record of the second commit counts the path of
\* that event together with the later one.
C29_Witness ==
    \E r \in Repos :
        /\ commits[r] = 2
        /\ Len(records[r]) = 1
        /\ records[r][1].paths = Paths
        /\ records[r][1].files_changed >= 2
        /\ records[r][1].duration > 0
        /\ file_changes[r] = {}
        /\ events = MaxEvents + 1

\* The state between the two commits: the hash of the first commit is
\* recorded, no record was saved, the path is still in file_changes.
C29_WitnessKept ==
    \E r \in DOMAIN last_commits \cap DOMAIN file_changes :
        /\ commits[r] = 1
        /\ last_commits[r] = head[r]
        /\ records[r] = <<>>
        /\ file_changes[r] # {}
        /\ active_sessions[r] = <<None, None>>
        /\ Get(accumulated_time, r, 0) = 0

\* Time of r is waiting to be flushed: seconds are accumulated or the active
\* span has positive length.
HasTime(r) ==
    \/ Get(accumulated_time, r, 0) > 0
    \/ /\ SessionOf(active_sessions, r)[1] # None
       /\ SessionOf(active_sessions, r)[2] > SessionOf(active_sessions, r)[1]

\* The hash of r was recorded by an earlier poll and HEAD has moved since.
HeadMoved(r) ==
    /\ r \in DOMAIN last_commits
    /\ head[r] # NoHead
    /\ head[r] # last_commits[r]

\* C27: when a repository has time waiting, its hash is recorded and its
\* HEAD has moved, then with ticks scheduled fairly a further record of the
\* repository is eventually emitted and its accumulated time is 0.
C27_EventualFlush ==
    \A r \in TickRepos, n \in 0 .. MaxCommits :
        (HasTime(r) /\ HeadMoved(r) /\ Len(records[r]) = n)
            ~> (Len(records[r]) > n /\ Get(accumulated_time, r, 0) = 0)

\* C27 for spans whose start is not the time 0.0, which `if start` takes for
\* no start at all.
C27_EventualFlushTruthy ==
    \A r \in TickRepos, n \in 0 .. MaxCommits :
        (/\ HasTime(r) /\ HeadMoved(r) /\ Len(records[r]) = n
         /\ SessionOf(active_sessions, r)[1] # 0)
            ~> (Len(records[r]) > n /\ Get(accumulated_time, r, 0) = 0)

====
